---------------------------- MODULE Spec2Model ----------------------------
(***************************************************************************)
(* AlphaFlow trading runtime: the daily risk manager, the order manager,   *)
(* the admission checks (portfolio heat, correlated exposure, position     *)
(* sizing) and the strategy executor with its worker threads.              *)
(*                                                                         *)
(* Money, prices and ATR values are integers of one common unit; every     *)
(* comparison of a quotient in the source is modelled by the equivalent    *)
(* comparison of cross-multiplied integers, i.e. with exact arithmetic     *)
(* (binary floating point rounding is not modelled).                       *)
(***************************************************************************)
EXTENDS Integers, Sequences, FiniteSets, TLC

\* Optional[...] = None of the source.  Every modelled number is far above it.
None == -999999

Max(a, b) == IF a >= b THEN a ELSE b
Min(a, b) == IF a <= b THEN a ELSE b
Abs(a) == IF a >= 0 THEN a ELSE -a

VARIABLES
    \* ---- backend/daily_risk_manager.py ----
    clock,                  \* date.today() of the wall clock
    daily_risk_manager,     \* the DailyRiskManager instance (its fields)
    risk_ret,               \* the last call on it: operation, argument, result
    \* ---- core/order_manager.py ----
    trading_mode,           \* OrderManager.trading_mode
    alpaca_api,             \* OrderManager.alpaca_api is not None
    om_now,                 \* datetime.now(), in milliseconds
    order_objs,             \* every Order object created so far (the heap)
    orders,                 \* OrderManager.orders: client_order_id -> Order object
    om_ret,                 \* the last OrderManager call: operation, argument, result
    \* ---- admission checks as functions of their arguments ----
    adm_in,                 \* the arguments of one admission call
    adm_out,                \* its result ("none" before the call)
    \* ---- backend/strategy_executor.py, position_manager.py, api/strategies.py ----
    position_manager,       \* PositionManager.positions: the ledger
    threads,                \* the worker threads: position in the loop, locals
    running_strategies,     \* StrategyExecutor.running_strategies (its keys)
    execution_threads,      \* execution_threads and stop_flags: id -> thread
    strategy_states,        \* api/strategies.py strategy_states
    api,                    \* the API handler in progress on the event loop
    accepted,               \* orders the broker has accepted: per pair, and in all
    em_done,                \* emergency_stop has returned without a broker failure
                            \* and no strategy has been started since
    \* ---- core/portfolio_manager.py ----
    portfolio_manager,      \* PortfolioManager: cash, positions, trade_history
    pf_ret,                 \* the last call on it: arguments and return value
    \* ---- core/backtester.py ----
    bt_in,                  \* the bars and what the strategies make of them
    backtest_engine,        \* BacktestEngine: the state of its ml_predictor
    backtest_runs           \* what each run_backtest call has returned

riskVars == <<clock, daily_risk_manager, risk_ret>>

orderVars == <<trading_mode, alpaca_api, om_now, order_objs, orders, om_ret>>

admVars == <<adm_in, adm_out>>

execVars == <<position_manager, threads, running_strategies, execution_threads,
              strategy_states, api, accepted, em_done>>

engineVars == <<portfolio_manager, pf_ret, bt_in, backtest_engine, backtest_runs>>

vars == <<riskVars, orderVars, admVars, execVars, engineVars>>

-----------------------------------------------------------------------------
(***************************************************************************)
(* backend/daily_risk_manager.py                                           *)
(***************************************************************************)

\* Last calendar day the clock reaches.
MaxDay == 2

\* max_daily_loss_percent = 0.02, in percent (the source compares percents).
MaxDailyLossPct == 2

\* Portfolio values a caller reports; 98 is exactly -2% of 100.
PortfolioValues == {0, 97, 98, 99, 100}

NoReason == [kind |-> "None", pct |-> 0]

\* f"{daily_pnl_percent:.2f}": the percentage in hundredths of a percent,
\* rounded to the nearest (start > 0 where this is used).
PctHundredths(pnl, start) ==
    IF pnl >= 0 THEN (2 * 10000 * pnl + start) \div (2 * start)
    ELSE -((2 * 10000 * (-pnl) + start) \div (2 * start))

\* daily_pnl_percent <= -(max_daily_loss_percent * 100), with
\* daily_pnl_percent = (daily_pnl / starting_portfolio_value) * 100.
LossLimitStrict(pnl, start) ==
    IF start > 0 THEN 100 * pnl < -(MaxDailyLossPct * start)
    ELSE 100 * pnl > -(MaxDailyLossPct * start)

LossLimitReached(pnl, start) ==
    IF start > 0 THEN 100 * pnl <= -(MaxDailyLossPct * start)
    ELSE 100 * pnl >= -(MaxDailyLossPct * start)

\* `if self.starting_portfolio_value:` -- None and 0.0 are falsy.
Truthy(x) == x # None /\ x # 0

DailyRiskManagerInit ==
    [today |-> 0,
     starting_portfolio_value |-> None,
     current_portfolio_value |-> None,
     daily_pnl |-> 0,
     trading_halted |-> FALSE,
     halt_reason |-> NoReason]

\* reset_daily(): the manager's fields after the call, made at date `now`.
reset_daily(m, now) ==
    IF now # m.today
    THEN [today |-> now,
          starting_portfolio_value |-> None,
          current_portfolio_value |-> None,
          daily_pnl |-> 0,
          trading_halted |-> FALSE,
          halt_reason |-> NoReason]
    ELSE m

\* update_portfolio_value with the `if not self.trading_halted:` guard of the
\* breach branch left out.
UpdatedManagerUnguarded(m0, now, current_value) ==
    LET m1 == reset_daily(m0, now)
        start == IF m1.starting_portfolio_value = None
                 THEN current_value ELSE m1.starting_portfolio_value
        m2 == [m1 EXCEPT !.starting_portfolio_value = start,
                         !.current_portfolio_value = current_value]
    IN  IF Truthy(start)
        THEN LET pnl == current_value - start
                 m3 == [m2 EXCEPT !.daily_pnl = pnl]
             IN  IF LossLimitReached(pnl, start)
                 THEN [m3 EXCEPT !.trading_halted = TRUE,
                                 !.halt_reason =
                                     [kind |-> "Daily loss limit reached",
                                      pct |-> PctHundredths(pnl, start)]]
                 ELSE m3
        ELSE m2

\* update_portfolio_value(current_value): the fields after the call.
UpdatedManager(m0, now, current_value) ==
    LET m1 == reset_daily(m0, now)
        start == IF m1.starting_portfolio_value = None
                 THEN current_value ELSE m1.starting_portfolio_value
        m2 == [m1 EXCEPT !.starting_portfolio_value = start,
                         !.current_portfolio_value = current_value]
    IN  IF Truthy(start)
        THEN LET pnl == current_value - start
                 m3 == [m2 EXCEPT !.daily_pnl = pnl]
             IN  IF LossLimitReached(pnl, start) /\ ~m3.trading_halted
                 THEN [m3 EXCEPT !.trading_halted = TRUE,
                                 !.halt_reason =
                                     [kind |-> "Daily loss limit reached",
                                      pct |-> PctHundredths(pnl, start)]]
                 ELSE m3
        ELSE m2

\* The value update_portfolio_value returns: False exactly on a breach.
UpdateResult(m0, now, current_value) ==
    LET m == UpdatedManager(m0, now, current_value)
    IN  ~(Truthy(m.starting_portfolio_value)
          /\ LossLimitReached(m.daily_pnl, m.starting_portfolio_value))

\* logger.error("TRADING HALTED ...") is reached: the call finds the limit
\* breached and the flag not set.
BreachLogged(m0, now, current_value) ==
    LET m1 == reset_daily(m0, now)
        start == IF m1.starting_portfolio_value = None
                 THEN current_value ELSE m1.starting_portfolio_value
    IN  /\ Truthy(start)
        /\ LossLimitReached(current_value - start, start)
        /\ ~m1.trading_halted

update_portfolio_value(current_value) ==
    /\ daily_risk_manager' = UpdatedManager(daily_risk_manager, clock, current_value)
    /\ risk_ret' = [op |-> "update_portfolio_value", arg |-> current_value,
                    ok |-> UpdateResult(daily_risk_manager, clock, current_value),
                    reason |-> NoReason,
                    logged |-> BreachLogged(daily_risk_manager, clock,
                                            current_value)]
    /\ UNCHANGED <<clock, orderVars, admVars, engineVars, execVars>>

\* can_trade(): (False, halt_reason) when halted, else (True, None).
can_trade_result(m0, now) ==
    LET m == reset_daily(m0, now)
    IN  IF m.trading_halted
        THEN [ok |-> FALSE, reason |-> m.halt_reason]
        ELSE [ok |-> TRUE, reason |-> NoReason]

can_trade ==
    /\ daily_risk_manager' = reset_daily(daily_risk_manager, clock)
    /\ risk_ret' = [op |-> "can_trade", arg |-> None,
                    ok |-> can_trade_result(daily_risk_manager, clock).ok,
                    reason |-> can_trade_result(daily_risk_manager, clock).reason]
    /\ UNCHANGED <<clock, orderVars, admVars, engineVars, execVars>>

\* get_daily_stats(): the reported trading_halted and halt_reason.
daily_stats(m0, now) ==
    LET m == reset_daily(m0, now)
    IN  IF m.starting_portfolio_value = None
        THEN [trading_halted |-> FALSE, halt_reason |-> NoReason]
        ELSE [trading_halted |-> m.trading_halted, halt_reason |-> m.halt_reason]

get_daily_stats ==
    /\ daily_risk_manager' = reset_daily(daily_risk_manager, clock)
    /\ risk_ret' = [op |-> "get_daily_stats", arg |-> None,
                    ok |-> daily_stats(daily_risk_manager, clock).trading_halted,
                    reason |-> daily_stats(daily_risk_manager, clock).halt_reason]
    /\ UNCHANGED <<clock, orderVars, admVars, engineVars, execVars>>

\* manual_halt(reason): no reset_daily() here.
manual_halt ==
    /\ daily_risk_manager' = [daily_risk_manager EXCEPT
                                  !.trading_halted = TRUE,
                                  !.halt_reason = [kind |-> "Manual halt by user",
                                                   pct |-> 0]]
    /\ risk_ret' = [op |-> "manual_halt", arg |-> None, ok |-> TRUE,
                    reason |-> NoReason]
    /\ UNCHANGED <<clock, orderVars, admVars, engineVars, execVars>>

resume_trading ==
    /\ daily_risk_manager' = [daily_risk_manager EXCEPT
                                  !.trading_halted = FALSE,
                                  !.halt_reason = NoReason]
    /\ risk_ret' = [op |-> "resume_trading", arg |-> None, ok |-> TRUE,
                    reason |-> NoReason]
    /\ UNCHANGED <<clock, orderVars, admVars, engineVars, execVars>>

\* Midnight passes: date.today() changes; the manager notices at its next call.
NewDay ==
    /\ clock < MaxDay
    /\ clock' = clock + 1
    /\ UNCHANGED <<daily_risk_manager, risk_ret, orderVars, admVars, engineVars, execVars>>

RiskNext ==
    \/ \E v \in PortfolioValues : update_portfolio_value(v)
    \/ can_trade
    \/ get_daily_stats
    \/ manual_halt
    \/ resume_trading
    \/ NewDay


-----------------------------------------------------------------------------
(***************************************************************************)
(* core/order_manager.py                                                   *)
(*                                                                         *)
(* An Order object lives on the heap (order_objs) and is referred to by    *)
(* its index: submit_order takes the object, cancel_order and              *)
(* update_order_status look it up in OrderManager.orders by its            *)
(* client_order_id, which create_order derives from the millisecond clock. *)
(* Fields that are only written and never read by the manager (symbol,     *)
(* side, time_in_force, filled_avg_price, submitted_at, filled_at,         *)
(* error_message) are left out.  om_ret.broker names the request, if any,  *)
(* the call sent to the broker.                                            *)
(***************************************************************************)

\* Order objects created in one run.
MaxOrderObjs == 1

\* Last value of the millisecond clock.
MaxNow == 1

TradingModes == {"live", "paper", "backtest", "analysis"}

OrderTypes == {"market", "limit", "stop", "stop_limit", "trailing_stop"}

OrderStatuses == {"pending", "submitted", "partially_filled", "filled",
                  "canceled", "rejected", "expired"}

Quantities == {2}
LimitPrices == {None, 50}
StopPrices == {None, 45}

\* alpaca_order.status as the broker reports it: the six values of
\* status_mapping and two of the broker's other order states.
BrokerStatuses == {"new", "partially_filled", "filled", "canceled",
                   "rejected", "expired", "accepted", "pending_cancel"}

\* status_mapping.get(alpaca_order.status, OrderStatus.PENDING)
status_mapping(broker_status) ==
    CASE broker_status = "new" -> "submitted"
      [] broker_status = "partially_filled" -> "partially_filled"
      [] broker_status = "filled" -> "filled"
      [] broker_status = "canceled" -> "canceled"
      [] broker_status = "rejected" -> "rejected"
      [] broker_status = "expired" -> "expired"
      [] OTHER -> "pending"

\* Order(...) as create_order builds it: the dataclass defaults.
NewOrder(quantity, order_type, limit_price, stop_price, id) ==
    [quantity |-> quantity,
     order_type |-> order_type,
     status |-> "pending",
     limit_price |-> limit_price,
     stop_price |-> stop_price,
     order_id |-> None,
     client_order_id |-> id,
     filled_quantity |-> 0,
     canceled_at |-> None]

\* The validation at the top of create_order: TRUE when the order is refused.
CreateRefused(order_type, limit_price, stop_price) ==
    \/ order_type = "limit" /\ limit_price = None
    \/ order_type \in {"stop", "stop_limit"} /\ stop_price = None

OmRet(op, arg, ok, broker) == [op |-> op, arg |-> arg, ok |-> ok, broker |-> broker]

create_order(quantity, order_type, limit_price, stop_price) ==
    /\ Len(order_objs) < MaxOrderObjs
    /\ IF CreateRefused(order_type, limit_price, stop_price)
       THEN /\ om_ret' = OmRet("create_order", None, FALSE, "none")
            /\ UNCHANGED <<order_objs, orders>>
       ELSE /\ order_objs' = Append(order_objs,
                    NewOrder(quantity, order_type, limit_price, stop_price, om_now))
            /\ orders' = [id \in DOMAIN orders \cup {om_now} |->
                            IF id = om_now THEN Len(order_objs) + 1 ELSE orders[id]]
            /\ om_ret' = OmRet("create_order", Len(order_objs) + 1, TRUE, "none")
    /\ UNCHANGED <<trading_mode, alpaca_api, om_now, riskVars, admVars, engineVars, execVars>>

\* A fill of one share more than was ordered.
simulate_backtest_overfill(o) ==
    [o EXCEPT !.status = "filled",
              !.filled_quantity = o.quantity + 1]

\* _simulate_backtest_fill(order)
simulate_backtest_fill(o) ==
    [o EXCEPT !.status = "filled",
              !.filled_quantity = o.quantity]

\* submit_order(order): i is the Order object passed in.
submit_order(i) ==
    /\ i \in DOMAIN order_objs
    /\ \/ /\ trading_mode = "analysis"
          /\ om_ret' = OmRet("submit_order", i, FALSE, "none")
          /\ UNCHANGED order_objs
       \/ /\ trading_mode = "backtest"
          /\ order_objs' = [order_objs EXCEPT ![i] = simulate_backtest_fill(@)]
          /\ om_ret' = OmRet("submit_order", i, TRUE, "none")
       \/ /\ trading_mode \in {"live", "paper"}
          /\ ~alpaca_api
          /\ order_objs' = [order_objs EXCEPT ![i].status = "rejected"]
          /\ om_ret' = OmRet("submit_order", i, FALSE, "none")
       \/ \* the broker accepts the order
          /\ trading_mode \in {"live", "paper"}
          /\ alpaca_api
          /\ order_objs' = [order_objs EXCEPT
                               ![i].order_id = i,
                               ![i].status = "submitted"]
          /\ om_ret' = OmRet("submit_order", i, TRUE, "submit_order")
       \/ \* the broker call raises (APIError or any other exception)
          /\ trading_mode \in {"live", "paper"}
          /\ alpaca_api
          /\ order_objs' = [order_objs EXCEPT ![i].status = "rejected"]
          /\ om_ret' = OmRet("submit_order", i, FALSE, "submit_order")
    /\ UNCHANGED <<trading_mode, alpaca_api, om_now, orders, riskVars, admVars, engineVars, execVars>>

\* The status guard of cancel_order.
CancelRefused(status) == status \in {"filled", "canceled", "rejected"}

\* cancel_order(client_order_id)
cancel_order(id) ==
    /\ IF id \notin DOMAIN orders
       THEN /\ om_ret' = OmRet("cancel_order", id, FALSE, "none")
            /\ UNCHANGED order_objs
       ELSE LET i == orders[id]
                o == order_objs[i]
            IN  IF CancelRefused(o.status)
                THEN /\ om_ret' = OmRet("cancel_order", id, FALSE, "none")
                     /\ UNCHANGED order_objs
                ELSE IF trading_mode = "backtest"
                THEN /\ order_objs' = [order_objs EXCEPT
                                          ![i].status = "canceled",
                                          ![i].canceled_at = om_now]
                     /\ om_ret' = OmRet("cancel_order", id, TRUE, "none")
                ELSE IF alpaca_api /\ Truthy(o.order_id)
                THEN \/ \* the broker cancels
                        /\ order_objs' = [order_objs EXCEPT
                                             ![i].status = "canceled",
                                             ![i].canceled_at = om_now]
                        /\ om_ret' = OmRet("cancel_order", id, TRUE, "cancel_order")
                     \/ \* the broker call raises
                        /\ om_ret' = OmRet("cancel_order", id, FALSE, "cancel_order")
                        /\ UNCHANGED order_objs
                ELSE /\ om_ret' = OmRet("cancel_order", id, FALSE, "none")
                     /\ UNCHANGED order_objs
    /\ UNCHANGED <<trading_mode, alpaca_api, om_now, orders, riskVars, admVars, engineVars, execVars>>

\* What a poll of the broker may answer for an order of this quantity:
\* alpaca_order.status and alpaca_order.filled_qty.
BrokerAnswers(quantity) ==
    {[status |-> st, filled_qty |-> f] :
        st \in BrokerStatuses, f \in 0..quantity}

\* update_order_status(client_order_id), the broker answering `a`.
update_order_status(id, a) ==
    /\ id \in DOMAIN orders
    /\ Truthy(order_objs[orders[id]].order_id)
    /\ alpaca_api
    /\ LET i == orders[id]
           o == order_objs[i]
       IN  order_objs' = [order_objs EXCEPT ![i] =
               [o EXCEPT !.status = status_mapping(a.status),
                         !.filled_quantity = a.filled_qty]]
    /\ om_ret' = OmRet("update_order_status", id, TRUE, "get_order")
    /\ UNCHANGED <<trading_mode, alpaca_api, om_now, orders, riskVars, admVars, engineVars, execVars>>

\* update_order_status returning without a change: unknown id, no broker
\* order id, no API, or the broker call raising.
update_order_status_noop(id) ==
    /\ om_ret' = OmRet("update_order_status", id, FALSE,
                       IF /\ id \in DOMAIN orders
                          /\ Truthy(order_objs[orders[id]].order_id)
                          /\ alpaca_api
                       THEN "get_order" ELSE "none")
    /\ UNCHANGED <<trading_mode, alpaca_api, om_now, order_objs, orders,
                   riskVars, admVars, engineVars, execVars>>

\* A millisecond passes.
OmTick ==
    /\ om_now < MaxNow
    /\ om_now' = om_now + 1
    /\ UNCHANGED <<trading_mode, alpaca_api, order_objs, orders, om_ret,
                   riskVars, admVars, engineVars, execVars>>

\* Client order ids a caller may pass: every clock value.
ClientIds == 0..MaxNow

OrderNext ==
    \/ \E q \in Quantities, t \in OrderTypes, l \in LimitPrices, sp \in StopPrices :
           create_order(q, t, l, sp)
    \/ \E i \in 1..MaxOrderObjs : submit_order(i)
    \/ \E id \in ClientIds : cancel_order(id)
    \/ \E id \in ClientIds :
           \E a \in BrokerAnswers(IF id \in DOMAIN orders
                                  THEN order_objs[orders[id]].quantity ELSE 0) :
               update_order_status(id, a)
    \/ \E id \in ClientIds : update_order_status_noop(id)
    \/ OmTick

-----------------------------------------------------------------------------
(***************************************************************************)
(* backend/portfolio_risk.py: PortfolioRiskManager.                        *)
(*                                                                         *)
(* Prices and portfolio values are whole dollars.  A share count that need *)
(* not be whole (position_value / entry_price) is kept as a fraction n / d *)
(* with d > 0, and the float comparisons are made exactly, by cross        *)
(* multiplication.  Correlations are in hundredths.                        *)
(***************************************************************************)
Frac(n, d) == [n |-> n, d |-> d]

FracAdd(a, b) == Frac(a.n * b.d + b.n * a.d, a.d * b.d)

FracLeq(a, b) == a.n * b.d <= b.n * a.d

\* max_portfolio_heat, max_correlated_exposure, correlation_threshold of the
\* global portfolio_risk_manager, in percent.
MaxPortfolioHeatPct == 25
MaxCorrelatedExposurePct == 15
CorrelationThresholdPct == 70

Symbols == {"SPY", "IWM"}

\* The dict the risk manager receives for one position.
PositionDict(symbol, shares, entry_price, current_price, stop_loss) ==
    [symbol |-> symbol, shares |-> shares, entry_price |-> entry_price,
     current_price |-> current_price, stop_loss |-> stop_loss]

\* The loop of calculate_portfolio_heat: positions whose stop_loss is falsy
\* (None or 0.0) are skipped.
RECURSIVE total_risk(_)
total_risk(positions) ==
    IF positions = <<>>
    THEN Frac(0, 1)
    ELSE LET position == Head(positions)
             rest == total_risk(Tail(positions))
         IN  IF ~Truthy(position.stop_loss)
             THEN rest
             ELSE FracAdd(Frac(Abs(position.current_price - position.stop_loss)
                                   * position.shares.n,
                               position.shares.d),
                          rest)

calculate_portfolio_heat(positions, portfolio_value) ==
    IF portfolio_value > 0
    THEN LET r == total_risk(positions) IN Frac(r.n, r.d * portfolio_value)
    ELSE Frac(0, 1)

\* is_within_limit of check_portfolio_heat_limit
check_portfolio_heat_limit(positions, portfolio_value) ==
    FracLeq(calculate_portfolio_heat(positions, portfolio_value),
            Frac(MaxPortfolioHeatPct, 100))

\* The correlation matrix returned by calculate_correlation_matrix for two
\* symbols whose correlation is c: computed from downloaded closes, taken from
\* the one hour cache, or the identity matrix after a failure (c = 0).  c = None
\* stands for a matrix (a cached one) that lacks a symbol: the lookup raises
\* KeyError.
CorrMatrix(c) ==
    [pr \in Symbols \X Symbols |-> IF pr[1] = pr[2] THEN 100 ELSE c]

Correlations == {None, 0, 70}

\* A test that takes a strong negative correlation for a correlation too.
is_correlated_abs(correlation) ==
    correlation # None /\ Abs(correlation) >= CorrelationThresholdPct

\* `correlation >= self.correlation_threshold` under the `try`: a label the
\* matrix lacks raises KeyError and the symbol is passed over.
is_correlated(correlation) ==
    correlation # None /\ correlation >= CorrelationThresholdPct

\* The inner loop of find_correlated_clusters from index k on;
\* st = [cluster, assigned].
RECURSIVE cluster_members(_, _, _, _, _)
cluster_members(symbol, symbols, k, st, corr_matrix) ==
    IF k > Len(symbols)
    THEN st
    ELSE LET other_symbol == symbols[k]
             correlation == corr_matrix[<<symbol, other_symbol>>]
         IN  IF other_symbol = symbol \/ other_symbol \in st.assigned
             THEN cluster_members(symbol, symbols, k + 1, st, corr_matrix)
             ELSE IF is_correlated(correlation)
             THEN cluster_members(symbol, symbols, k + 1,
                      [cluster |-> Append(st.cluster, other_symbol),
                       assigned |-> st.assigned \cup {other_symbol}],
                      corr_matrix)
             ELSE cluster_members(symbol, symbols, k + 1, st, corr_matrix)

\* The outer loop of find_correlated_clusters from index k on.
RECURSIVE clusters_from(_, _, _, _, _)
clusters_from(symbols, k, clusters, assigned, corr_matrix) ==
    IF k > Len(symbols)
    THEN clusters
    ELSE IF symbols[k] \in assigned
    THEN clusters_from(symbols, k + 1, clusters, assigned, corr_matrix)
    ELSE LET st == cluster_members(symbols[k], symbols, 1,
                       [cluster |-> <<symbols[k]>>,
                        assigned |-> assigned \cup {symbols[k]}],
                       corr_matrix)
         IN  clusters_from(symbols, k + 1, Append(clusters, st.cluster),
                           st.assigned, corr_matrix)

find_correlated_clusters(symbols, corr_matrix) ==
    IF Len(symbols) <= 1
    THEN <<symbols>>
    ELSE clusters_from(symbols, 1, <<>>, {}, corr_matrix)

\* sum(p['shares'] * p['current_price'] for p in positions if p['symbol'] in cluster)
RECURSIVE cluster_value(_, _)
cluster_value(positions, cluster) ==
    IF positions = <<>>
    THEN Frac(0, 1)
    ELSE LET p == Head(positions)
             rest == cluster_value(Tail(positions), cluster)
         IN  IF \E j \in DOMAIN cluster : cluster[j] = p.symbol
             THEN FracAdd(Frac(p.shares.n * p.current_price, p.shares.d), rest)
             ELSE rest

\* The loop over the clusters of check_correlated_exposure from index k on.
RECURSIVE max_cluster_exposure(_, _, _, _, _)
max_cluster_exposure(positions, portfolio_value, clusters, k, max_so_far) ==
    IF k > Len(clusters)
    THEN max_so_far
    ELSE LET v == cluster_value(positions, clusters[k])
             cluster_exposure == IF portfolio_value > 0
                                 THEN Frac(v.n, v.d * portfolio_value)
                                 ELSE Frac(0, 1)
         IN  max_cluster_exposure(positions, portfolio_value, clusters, k + 1,
                 IF FracLeq(cluster_exposure, max_so_far)
                 THEN max_so_far ELSE cluster_exposure)

\* is_within_limit of check_correlated_exposure
check_correlated_exposure(positions, portfolio_value, corr_matrix) ==
    IF positions = <<>>
    THEN TRUE
    ELSE LET symbols == [j \in DOMAIN positions |-> positions[j].symbol]
             clusters == find_correlated_clusters(symbols, corr_matrix)
         IN  FracLeq(max_cluster_exposure(positions, portfolio_value,
                                          clusters, 1, Frac(0, 1)),
                     Frac(MaxCorrelatedExposurePct, 100))

\* can_open_new_position: the result and which check refused.
can_open_new_position(symbol, position_value, stop_loss_price, entry_price, existing_positions, portfolio_value, corr_matrix) ==
    LET new_position == PositionDict(symbol, Frac(position_value, entry_price),
                                     entry_price, entry_price, stop_loss_price)
        all_positions == Append(existing_positions, new_position)
    IN  IF ~check_portfolio_heat_limit(all_positions, portfolio_value)
        THEN [can_open |-> FALSE, reason |-> "Portfolio heat would exceed limit"]
        ELSE IF ~check_correlated_exposure(all_positions, portfolio_value,
                                           corr_matrix)
        THEN [can_open |-> FALSE,
              reason |-> "Correlated exposure would exceed limit"]
        ELSE [can_open |-> TRUE, reason |-> "Position approved"]

-----------------------------------------------------------------------------
(***************************************************************************)
(* core/position_sizing.py.  win_rate is in percent, reward_risk_ratio in  *)
(* tenths, heat in basis points when it is an argument.                    *)
(***************************************************************************)
\* max_heat_pct and warning_heat_pct of PortfolioHeatManager, in percent.
MaxHeatPct == 6
WarningHeatPct == 4

\* The Kelly position size without the cap at max_position.
kelly_position_size_uncapped(win_rate, reward_risk_ratio, portfolio_value) ==
    IF win_rate < 40 \/ win_rate > 100
    THEN Frac(portfolio_value * 5, 100)
    ELSE IF reward_risk_ratio <= 0
    THEN Frac(portfolio_value * 5, 100)
    ELSE LET num == reward_risk_ratio * win_rate - 10 * (100 - win_rate)
         IN  IF num <= 0
             THEN Frac(0, 1)
             ELSE Frac(portfolio_value * num, 200 * reward_risk_ratio)

\* KellyCriterionCalculator.calculate_position_size with fraction = 0.5 and
\* max_position = 0.25: the position size in dollars.
kelly_position_size(win_rate, reward_risk_ratio, portfolio_value) ==
    IF win_rate < 40 \/ win_rate > 100
    THEN Frac(portfolio_value * 5, 100)
    ELSE IF reward_risk_ratio <= 0
    THEN Frac(portfolio_value * 5, 100)
    ELSE \* (b*p - q) / b * 0.5 = num / (200 * reward_risk_ratio)
         LET num == reward_risk_ratio * win_rate - 10 * (100 - win_rate)
         IN  IF num <= 0
             THEN Frac(0, 1)
             ELSE IF 4 * num >= 200 * reward_risk_ratio
             THEN Frac(portfolio_value, 4)
             ELSE Frac(portfolio_value * num, 200 * reward_risk_ratio)

\* AdvancedPositionSizer._kelly_method
kelly_method(price, win_rate, reward_risk_ratio, portfolio_value) ==
    IF win_rate = None \/ reward_risk_ratio = None
    THEN (portfolio_value * 10) \div (100 * price)
    ELSE LET dollar_amount == kelly_position_size(win_rate, reward_risk_ratio,
                                                  portfolio_value)
         IN  dollar_amount.n \div (dollar_amount.d * price)

\* VolatilityAdjustedSizing.calculate_shares with risk_per_trade_pct = 0.01 and
\* stop_multiplier = 2.0; the division by a zero stop distance raises and the
\* handler returns 1.
calculate_shares(price, atr, portfolio_value) ==
    IF atr = 0
    THEN 1
    ELSE Min(Max(1, portfolio_value \div (100 * 2 * atr)),
             (portfolio_value * 25) \div (100 * price))

fixed_percent_method(price, portfolio_value) ==
    (portfolio_value * 10) \div (100 * price)

fixed_dollar_method(price) == 10000 \div price

PositionSizeMethods == {"kelly", "volatility", "fixed_percent", "fixed_dollar"}

\* PortfolioHeatManager.calculate_heat: the action.  A stop_loss of None makes
\* the subtraction raise and the handler answers NORMAL.
RECURSIVE entry_risk(_)
entry_risk(open_positions) ==
    IF open_positions = <<>>
    THEN 0
    ELSE LET pos == Head(open_positions)
         IN  Abs(pos.entry_price - pos.stop_loss) * pos.shares.n
                 + entry_risk(Tail(open_positions))

calculate_heat(open_positions, portfolio_value) ==
    IF open_positions = <<>>
    THEN "NORMAL"
    ELSE IF \E j \in DOMAIN open_positions : open_positions[j].stop_loss = None
    THEN "NORMAL"
    ELSE LET total == entry_risk(open_positions)
         IN  IF portfolio_value <= 0
             THEN IF 0 >= MaxHeatPct THEN "STOP_TRADING" ELSE "NORMAL"
             ELSE IF 100 * total >= MaxHeatPct * portfolio_value
             THEN "STOP_TRADING"
             ELSE IF 100 * total >= WarningHeatPct * portfolio_value
             THEN "REDUCE_SIZE"
             ELSE "NORMAL"

\* PortfolioHeatManager.adjust_position_size: the adjusted size in dollars.
\* current_heat is in basis points; portfolio_value = 0 raises and the handler
\* returns the proposed size.
adjust_position_size(proposed_size, current_heat, portfolio_value, new_position_risk) ==
    IF portfolio_value = 0
    THEN proposed_size
    ELSE LET \* new_heat * 10000 * portfolio_value
             new_heat == current_heat * portfolio_value
                             + 10000 * new_position_risk
         IN  IF new_heat >= MaxHeatPct * 100 * portfolio_value
             THEN 0
             ELSE IF new_heat >= WarningHeatPct * 100 * portfolio_value
             THEN proposed_size \div 2
             ELSE proposed_size

\* AdvancedPositionSizer.calculate_position_size: the shares of the
\* PositionSize returned.  Formatting win_rate or reward_risk_ratio when it is
\* None raises, and the handler returns the minimum size of one share.
calculate_position_size(price, stop_loss, atr, method, win_rate, reward_risk_ratio, open_positions, portfolio_value) ==
    IF method = "kelly" /\ (win_rate = None \/ reward_risk_ratio = None)
    THEN [shares |-> 1, error |-> TRUE]
    ELSE LET shares ==
                 CASE method = "kelly" ->
                          kelly_method(price, win_rate, reward_risk_ratio,
                                       portfolio_value)
                   [] method = "volatility" ->
                          calculate_shares(price, atr, portfolio_value)
                   [] method = "fixed_percent" ->
                          fixed_percent_method(price, portfolio_value)
                   [] method = "fixed_dollar" -> fixed_dollar_method(price)
             heat_action == calculate_heat(open_positions, portfolio_value)
         IN  [shares |-> CASE heat_action = "STOP_TRADING" -> 0
                           [] heat_action = "REDUCE_SIZE" -> shares \div 2
                           [] OTHER -> shares,
              error |-> FALSE]

-----------------------------------------------------------------------------
(***************************************************************************)
(* The admission checks applied to arguments drawn from bounded sets:      *)
(* adm_in holds the arguments of one call, adm_out its result.             *)
(***************************************************************************)
\* Positions already open when a check is called.
MaxOpenPositions == 2

SeqsUpTo(S, n) == UNION {[1..k -> S] : k \in 0..n}

\* Arguments of can_open_new_position, the portfolio being worth $1000.
CanOpenInputs ==
    {[fn |-> "can_open_new_position", symbol |-> s, position_value |-> v,
      stop_loss_price |-> st, entry_price |-> e, existing_positions |-> ps,
      portfolio_value |-> 1000, correlation |-> c] :
        s \in Symbols, v \in {50, 150}, st \in {0, 1, 9}, e \in {4, 10},
        ps \in SeqsUpTo({PositionDict(ps_s, Frac(sh, 1), 10, 10, ps_st) :
                            ps_s \in Symbols, sh \in {5, 15},
                            ps_st \in {None, 1, 9}},
                        MaxOpenPositions),
        c \in Correlations}

\* Arguments of adjust_position_size, the portfolio being worth $100000.
AdjustInputs ==
    {[fn |-> "adjust_position_size", proposed_size |-> p, current_heat |-> h,
      portfolio_value |-> 100000, new_position_risk |-> r] :
        p \in {1000, 20000}, h \in {0, 200, 390, 590, 600},
        r \in {0, 100, 2000, 2100, 4000}}

\* Arguments of calculate_position_size, the sizer's portfolio being worth
\* $100000.
SizerInputs ==
    {[fn |-> "calculate_position_size", price |-> 100, stop_loss |-> st,
      atr |-> a, method |-> m, win_rate |-> w, reward_risk_ratio |-> rr,
      open_positions |-> ps, portfolio_value |-> 100000] :
        st \in {90, 95}, a \in {0, 1, 5}, m \in PositionSizeMethods,
        w \in {None, 30, 60}, rr \in {None, 0, 20},
        ps \in SeqsUpTo({PositionDict("SPY", Frac(sh, 1), 100, 100, 90) :
                            sh \in {200, 390, 600}},
                        MaxOpenPositions)}

\* Arguments of KellyCriterionCalculator.calculate_position_size: the win
\* rate in percent, the reward:risk ratio in tenths, the portfolio value in
\* dollars.
KellyInputs ==
    [fn : {"kelly_position_size"}, win_rate : {30, 40, 45, 50, 60, 75, 100},
     reward_risk_ratio : {0, 1, 5, 10, 20, 50},
     portfolio_value : {1, 1000, 10000}]

\* Arguments of VolatilityAdjustedSizing.calculate_shares, in dollars: a
\* share can cost more than a quarter of a small account, and the ATR of
\* flat bars is 0.
SharesInputs ==
    [fn : {"calculate_shares"}, price : {10, 100, 400}, atr : {0, 1, 5},
     portfolio_value : {300, 1000, 100000}]

\* The symbols of the correlated-exposure inputs, in the order the positions
\* were opened.
ClusterSymbols == <<"SPY", "QQQ", "IWM", "DIA">>

ClusterSymbolSet == {ClusterSymbols[k] : k \in DOMAIN ClusterSymbols}

\* returns.corr() of the closes of the lookback window: 1 on the diagonal,
\* symmetric; pairs gives the correlation of every two distinct symbols.
MarketCorrelations ==
    [{pr \in SUBSET ClusterSymbolSet : Cardinality(pr) = 2} -> {0, 70}]

\* What calculate_correlation_matrix returns for `symbols` (a set): the cached
\* matrix when it is less than an hour old, whatever symbols it was computed
\* for; else the matrix of the downloaded closes of `symbols`; the identity
\* matrix when the download fails.  None is a label the matrix lacks (.loc
\* raises KeyError).
calculate_correlation_matrix(symbols, pairs, cache) ==
    LET covered == IF cache.kind = "cached" THEN cache.symbols ELSE symbols
    IN  [pr \in ClusterSymbolSet \X ClusterSymbolSet |->
            IF pr[1] \notin covered \/ pr[2] \notin covered THEN None
            ELSE IF pr[1] = pr[2] THEN 100
            ELSE IF cache.kind = "failed" THEN 0
            ELSE pairs[{pr[1], pr[2]}]]

\* The state of the matrix cache at a call: expired or empty (download), a
\* download that fails, or a matrix computed within the hour for the symbols
\* of an earlier call (two or more: one symbol needs no matrix).
CacheStates ==
    {[kind |-> "download", symbols |-> {}], [kind |-> "failed", symbols |-> {}]}
        \cup {[kind |-> "cached", symbols |-> S] :
                 S \in {T \in SUBSET ClusterSymbolSet : Cardinality(T) >= 2}}

\* Arguments of can_open_new_position with up to three positions open in
\* different symbols.  Money is in units of $25: the portfolio is worth
\* $100000, every price is $100 and every stop $75; a position of 60 or 70
\* shares is 6% or 7% of the portfolio, the candidate 1% or 10%.
ClusterInputs ==
    {[fn |-> "can_open_cluster", symbol |-> s, position_value |-> v,
      stop_loss_price |-> 3, entry_price |-> 4,
      existing_positions |-> [j \in 1..n |->
          PositionDict(ClusterSymbols[j], Frac(sh[j], 1), 4, 4, 3)],
      portfolio_value |-> 4000, pairs |-> m, cache |-> c] :
        s \in ClusterSymbolSet, v \in {40, 400}, n \in 0..3,
        sh \in [1..3 -> {60, 70}], m \in MarketCorrelations,
        c \in CacheStates}

\* Arguments of find_correlated_clusters: up to three symbols out of three,
\* in any order and with repeats (two strategies holding one symbol), the
\* market's correlations, negative ones among them, and the matrix cache
\* empty, failing or filled for SPY and QQQ.
FindClusterInputs ==
    {[fn |-> "find_correlated_clusters", symbols |-> q, pairs |-> m,
      cache |-> c] :
        q \in UNION {[1..n -> {"SPY", "QQQ", "IWM"}] : n \in 1..3},
        m \in {f \in [{pr \in SUBSET ClusterSymbolSet : Cardinality(pr) = 2}
                         -> {-80, 0, 70}] :
                  \A pr \in DOMAIN f : "DIA" \in pr => f[pr] = 0},
        c \in {d \in CacheStates : d.symbols \subseteq {"SPY", "QQQ"}}}

AdmNone == [fn |-> "none", approved |-> FALSE, size |-> 0, reason |-> "none"]

AdmitCanOpen ==
    /\ adm_in.fn = "can_open_new_position"
    /\ adm_out.fn = "none"
    /\ LET r == can_open_new_position(adm_in.symbol, adm_in.position_value,
                    adm_in.stop_loss_price, adm_in.entry_price,
                    adm_in.existing_positions, adm_in.portfolio_value,
                    CorrMatrix(adm_in.correlation))
       IN  adm_out' = [fn |-> adm_in.fn, approved |-> r.can_open,
                       size |-> IF r.can_open THEN adm_in.position_value ELSE 0,
                       reason |-> r.reason]
    /\ UNCHANGED <<adm_in, riskVars, orderVars, execVars, engineVars>>

AdmitAdjust ==
    /\ adm_in.fn = "adjust_position_size"
    /\ adm_out.fn = "none"
    /\ LET size == adjust_position_size(adm_in.proposed_size,
                       adm_in.current_heat, adm_in.portfolio_value,
                       adm_in.new_position_risk)
       IN  adm_out' = [fn |-> adm_in.fn, approved |-> size > 0, size |-> size,
                       reason |-> IF size = 0 THEN "rejected"
                                  ELSE IF size < adm_in.proposed_size
                                  THEN "reduced" ELSE "unchanged"]
    /\ UNCHANGED <<adm_in, riskVars, orderVars, execVars, engineVars>>

AdmitSize ==
    /\ adm_in.fn = "calculate_position_size"
    /\ adm_out.fn = "none"
    /\ LET r == calculate_position_size(adm_in.price, adm_in.stop_loss,
                    adm_in.atr, adm_in.method, adm_in.win_rate,
                    adm_in.reward_risk_ratio, adm_in.open_positions,
                    adm_in.portfolio_value)
       IN  adm_out' = [fn |-> adm_in.fn, approved |-> r.shares > 0,
                       size |-> r.shares,
                       reason |-> IF r.error THEN "error"
                                  ELSE calculate_heat(adm_in.open_positions,
                                                      adm_in.portfolio_value)]
    /\ UNCHANGED <<adm_in, riskVars, orderVars, execVars, engineVars>>

\* can_open_new_position with the matrix calculate_correlation_matrix gives
\* for the symbols of the open positions and the candidate.
AdmitCanOpenCluster ==
    /\ adm_in.fn = "can_open_cluster"
    /\ adm_out.fn = "none"
    /\ LET symbols == {adm_in.existing_positions[j].symbol :
                          j \in DOMAIN adm_in.existing_positions}
                          \cup {adm_in.symbol}
           r == can_open_new_position(adm_in.symbol, adm_in.position_value,
                    adm_in.stop_loss_price, adm_in.entry_price,
                    adm_in.existing_positions, adm_in.portfolio_value,
                    calculate_correlation_matrix(symbols, adm_in.pairs,
                                                 adm_in.cache))
       IN  adm_out' = [fn |-> adm_in.fn, approved |-> r.can_open,
                       size |-> IF r.can_open THEN adm_in.position_value ELSE 0,
                       reason |-> r.reason]
    /\ UNCHANGED <<adm_in, riskVars, orderVars, execVars, engineVars>>

AdmitKelly ==
    /\ adm_in.fn = "kelly_position_size"
    /\ adm_out.fn = "none"
    /\ LET size == kelly_position_size(adm_in.win_rate,
                       adm_in.reward_risk_ratio, adm_in.portfolio_value)
       IN  adm_out' = [fn |-> adm_in.fn, approved |-> size.n > 0,
                       size |-> size, reason |-> "none"]
    /\ UNCHANGED <<adm_in, riskVars, orderVars, execVars, engineVars>>

AdmitShares ==
    /\ adm_in.fn = "calculate_shares"
    /\ adm_out.fn = "none"
    /\ LET shares == calculate_shares(adm_in.price, adm_in.atr,
                                      adm_in.portfolio_value)
       IN  adm_out' = [fn |-> adm_in.fn, approved |-> shares > 0,
                       size |-> shares, reason |-> "none"]
    /\ UNCHANGED <<adm_in, riskVars, orderVars, execVars, engineVars>>

\* find_correlated_clusters with the matrix calculate_correlation_matrix
\* gives for its symbols; the clusters are the result.
AdmitFindClusters ==
    /\ adm_in.fn = "find_correlated_clusters"
    /\ adm_out.fn = "none"
    /\ LET symbols == {adm_in.symbols[j] : j \in DOMAIN adm_in.symbols}
           clusters == find_correlated_clusters(adm_in.symbols,
                           calculate_correlation_matrix(symbols, adm_in.pairs,
                                                        adm_in.cache))
       IN  adm_out' = [fn |-> adm_in.fn, approved |-> TRUE,
                       size |-> Len(clusters), reason |-> clusters]
    /\ UNCHANGED <<adm_in, riskVars, orderVars, execVars, engineVars>>

AdmitNext ==
    \/ AdmitFindClusters
    \/ AdmitCanOpen
    \/ AdmitCanOpenCluster
    \/ AdmitAdjust
    \/ AdmitSize
    \/ AdmitKelly
    \/ AdmitShares

-----------------------------------------------------------------------------
(***************************************************************************)
(* backend/position_manager.py, backend/strategy_executor.py and           *)
(* backend/api/strategies.py.                                              *)
(*                                                                         *)
(* A worker thread runs _execute_strategy; no lock guards the ledger, the  *)
(* executor's tables or the risk manager, so a worker step holds at most   *)
(* one access to shared state followed by the blocking call (market data,  *)
(* broker) after it.  The API handlers are coroutines of one event loop:   *)
(* they never overlap each other, but stop_strategy blocks the loop in     *)
(* thread.join while the workers go on.                                    *)
(***************************************************************************)
\* Two of the strategies of strategy_states, which share a symbol.
Strategies == {"mean_reversion", "rsi_mean_reversion"}

\* strategy_symbols
strategy_symbols(strategy_id) ==
    IF strategy_id = "mean_reversion" THEN <<"SPY", "IWM">> ELSE <<"SPY">>

\* list(strategy_states.keys()): the order of the dict literal.
StrategyOrder == <<"rsi_mean_reversion", "mean_reversion">>

\* Worker threads created in one run.
MaxThreads == 2

\* Orders the broker accepts in one run.
MaxOrders == 2

\* account.portfolio_value as the broker reports it, and the last close of
\* every symbol.
PortfolioValue == 1000
CurrentPrice == 4

\* atr.iloc[-1]: 0 for flat bars, and an ATR larger than the price after a
\* collapse of the price inside the ATR window.
ATRs == {0, 1, 50}

\* Position of position_manager.py; NoPosition is the missing dict entry.
Position(shares, entry_price, stop_loss, take_profit) ==
    [shares |-> shares, entry_price |-> entry_price, stop_loss |-> stop_loss,
     take_profit |-> take_profit]

NoPosition == Position(0, 0, None, None)

has_position(pm, strategy_id, symbol) == pm[strategy_id][symbol] # NoPosition

add_position(pm, strategy_id, symbol, shares, entry_price, stop_loss) ==
    [pm EXCEPT ![strategy_id][symbol] =
                   Position(shares, entry_price, stop_loss, None)]

remove_position(pm, strategy_id, symbol) ==
    IF has_position(pm, strategy_id, symbol)
    THEN [pm EXCEPT ![strategy_id][symbol] = NoPosition]
    ELSE pm

\* Every (strategy, symbol) pair, in one fixed order.
AllPairs ==
    <<[strategy_id |-> "rsi_mean_reversion", symbol |-> "SPY"],
      [strategy_id |-> "mean_reversion", symbol |-> "SPY"],
      [strategy_id |-> "mean_reversion", symbol |-> "IWM"]>>

IsHeld(pm, pair) == has_position(pm, pair.strategy_id, pair.symbol)

\* get_all_positions(): the pairs that hold a position.  The dicts list them
\* in insertion order; the sums and the two-symbol clusters computed from the
\* list do not depend on it.
RECURSIVE held_from(_, _)
held_from(pm, k) ==
    IF k > Len(AllPairs)
    THEN <<>>
    ELSE IF IsHeld(pm, AllPairs[k])
    THEN <<AllPairs[k]>> \o held_from(pm, k + 1)
    ELSE held_from(pm, k + 1)

get_all_positions(pm) == held_from(pm, 1)

\* existing_positions of _execute_buy: one dict per position, current_price
\* set to the entry price.
existing_positions(pm) ==
    LET held == get_all_positions(pm)
    IN  [j \in DOMAIN held |->
            LET p == pm[held[j].strategy_id][held[j].symbol]
            IN  PositionDict(held[j].symbol, Frac(p.shares, 1), p.entry_price,
                             p.entry_price, p.stop_loss)]

check_stop_loss(current_price, position) ==
    position.stop_loss # None /\ current_price <= position.stop_loss

check_take_profit(current_price, position) ==
    position.take_profit # None /\ current_price >= position.take_profit

\* The locals of a worker thread.  tick_log and held_at_start record what the
\* worker has done for the symbol it is at in this iteration; stale says that
\* another worker has written the ledger since this worker's admission check.
Thread(pc, strategy_id, stop_flag, idx, stop_loss, reason, tick_log, held_at_start, stale) ==
    [pc |-> pc, strategy_id |-> strategy_id, stop_flag |-> stop_flag,
     idx |-> idx, stop_loss |-> stop_loss, reason |-> reason,
     tick_log |-> tick_log, held_at_start |-> held_at_start, stale |-> stale]

Unborn == Thread("unborn", "none", FALSE, 0, None, "none", <<>>, FALSE, FALSE)

ThreadIds == 1..MaxThreads

Alive(t) == threads[t].pc \notin {"unborn", "done"}

\* The symbol thread t is at.
SymbolOf(t) == strategy_symbols(threads[t].strategy_id)[threads[t].idx]

\* After a ledger write by thread t, every other worker between its admission
\* check and its add_position holds an outdated snapshot.
MarkStale(ths, t) ==
    [u \in ThreadIds |->
        IF u # t /\ ths[u].pc \in {"buy_place", "buy_add"}
        THEN [ths[u] EXCEPT !.stale = TRUE]
        ELSE ths[u]]

\* The worker moves on to its next symbol.
NextSymbol(th) ==
    [th EXCEPT !.pc = "sym", !.idx = th.idx + 1, !.stop_loss = None,
               !.reason = "none", !.tick_log = <<>>, !.held_at_start = FALSE,
               !.stale = FALSE]

\* Where _execute_sell returns to: the stop check after a signal sell, the
\* next symbol after a stop-loss or take-profit sell.
AfterSell(th) ==
    IF th.reason = "signal"
    THEN [th EXCEPT !.pc = "stopcheck", !.reason = "none"]
    ELSE NextSymbol(th)

\* The broker accepts an order: forced says that emergency_stop sent it.
AcceptOrder(pair, side, forced) ==
    [accepted EXCEPT !.total = accepted.total + 1,
                     !.net[pair] = accepted.net[pair]
                                       + (IF side = "buy" THEN 1 ELSE -1),
                     !.forced = accepted.forced \/ forced]

PairOf(strategy_id, symbol) == [strategy_id |-> strategy_id, symbol |-> symbol]

\* What the worker's fetch_data and generate_signal give for one symbol:
\* no data (None or empty), or a signal.
FetchOutcomes == {"no_data", "BUY", "SELL", "HOLD"}

\* A worker that never looks at its stop flag.
stop_flag_never_seen(th) == FALSE

\* stop_flag.is_set(), as the worker reads it in the `while` condition and
\* at the head of the symbol loop; a stop_flag.wait(timeout) that the flag
\* ends early leads to the same read.
stop_flag_is_set(th) == th.stop_flag

\* `while not stop_flag.is_set():` and the can_trade() check that follows it.
WorkerTop(t) ==
    /\ threads[t].pc = "top"
    /\ IF stop_flag_is_set(threads[t])
       THEN /\ threads' = [threads EXCEPT ![t].pc = "done"]
            /\ UNCHANGED daily_risk_manager
       ELSE /\ daily_risk_manager' = reset_daily(daily_risk_manager, clock)
            /\ threads' = [threads EXCEPT
                   ![t].pc = IF can_trade_result(daily_risk_manager, clock).ok
                             THEN "sym" ELSE "halt_wait",
                   ![t].idx = 1]
    /\ UNCHANGED <<clock, risk_ret, orderVars, admVars, engineVars, position_manager,
                   running_strategies, execution_threads, strategy_states, api,
                   accepted, em_done>>

\* stop_flag.wait(timeout=300) of a halted worker returns.
WorkerHaltWait(t) ==
    /\ threads[t].pc = "halt_wait"
    /\ threads' = [threads EXCEPT ![t].pc = "top", ![t].idx = 0]
    /\ UNCHANGED <<riskVars, orderVars, admVars, engineVars, position_manager,
                   running_strategies, execution_threads, strategy_states, api,
                   accepted, em_done>>

\* One pass of `for symbol in symbols:` up to the call the signal leads to:
\* the stop flag, fetch_data, generate_signal and has_position.  When the
\* loop is over, or broken by the stop flag, stop_flag.wait(timeout=60)
\* follows and the worker is back at the top.
WorkerSymbol(t) ==
    /\ threads[t].pc = "sym"
    /\ LET th == threads[t]
       IN  IF th.idx > Len(strategy_symbols(th.strategy_id)) \/ stop_flag_is_set(th)
           THEN threads' = [threads EXCEPT ![t].pc = "top", ![t].idx = 0]
           ELSE \E outcome \in FetchOutcomes :
                   LET held == has_position(position_manager, th.strategy_id,
                                            SymbolOf(t))
                       seen == [th EXCEPT !.tick_log = <<"signal">>,
                                          !.held_at_start = held]
                   IN  threads' = [threads EXCEPT ![t] =
                           CASE outcome = "no_data" -> NextSymbol(th)
                             [] outcome = "BUY" ->
                                    [seen EXCEPT !.pc = IF held THEN "stopcheck"
                                                        ELSE "buy_check"]
                             [] outcome = "SELL" ->
                                    IF held
                                    THEN [seen EXCEPT !.pc = "sell_place",
                                                      !.reason = "signal"]
                                    ELSE [seen EXCEPT !.pc = "stopcheck"]
                             [] outcome = "HOLD" ->
                                    [seen EXCEPT !.pc = "stopcheck"]]
    /\ UNCHANGED <<riskVars, orderVars, admVars, engineVars, position_manager,
                   running_strategies, execution_threads, strategy_states, api,
                   accepted, em_done>>

\* _execute_buy up to the risk check: get_account, the size, the ATR stop,
\* the snapshot of the ledger and can_open_new_position.  Any exception here
\* makes _execute_buy return False.
WorkerBuyCheck(t) ==
    /\ threads[t].pc = "buy_check"
    /\ \/ threads' = [threads EXCEPT ![t].pc = "stopcheck"]
       \/ \E atr \in ATRs, c \in Correlations :
             LET position_value == PortfolioValue \div 100
                 shares == position_value \div CurrentPrice
                 stop_loss == CurrentPrice - 2 * atr
                 r == can_open_new_position(SymbolOf(t), position_value,
                          stop_loss, CurrentPrice,
                          existing_positions(position_manager),
                          PortfolioValue, CorrMatrix(c))
             IN  threads' = [threads EXCEPT ![t] =
                     IF shares < 1 \/ ~r.can_open
                     THEN [@ EXCEPT !.pc = "stopcheck"]
                     ELSE [@ EXCEPT !.pc = "buy_place",
                                    !.stop_loss = stop_loss,
                                    !.stale = FALSE]]
    /\ UNCHANGED <<riskVars, orderVars, admVars, engineVars, position_manager,
                   running_strategies, execution_threads, strategy_states, api,
                   accepted, em_done>>

\* A worker that goes on to add_position after a place_order that raised.
BuyRaiseSwallowed(th) == [th EXCEPT !.pc = "buy_add"]

\* place_order raised inside _execute_buy: `except Exception` logs and
\* returns False, nothing after the call has run.
BuyRaised(th) ==
    [th EXCEPT !.pc = "stopcheck", !.stop_loss = None, !.stale = FALSE]

\* trading_engine.place_order(side='buy'): accepted, or it raises.
WorkerBuyPlace(t) ==
    /\ threads[t].pc = "buy_place"
    /\ \/ /\ accepted.total < MaxOrders
          /\ accepted' = AcceptOrder(PairOf(threads[t].strategy_id, SymbolOf(t)),
                                     "buy", FALSE)
          /\ threads' = [threads EXCEPT ![t].pc = "buy_add"]
       \/ /\ threads' = [threads EXCEPT ![t] = BuyRaised(@)]
          /\ UNCHANGED accepted
    /\ UNCHANGED <<riskVars, orderVars, admVars, engineVars, position_manager,
                   running_strategies, execution_threads, strategy_states, api,
                   em_done>>

\* position_manager.add_position and the rest of _execute_buy.
WorkerBuyAdd(t) ==
    /\ threads[t].pc = "buy_add"
    /\ position_manager' = add_position(position_manager, threads[t].strategy_id,
                               SymbolOf(t),
                               (PortfolioValue \div 100) \div CurrentPrice,
                               CurrentPrice, threads[t].stop_loss)
    /\ threads' = MarkStale([threads EXCEPT
                                 ![t].pc = "stopcheck",
                                 ![t].stop_loss = None,
                                 ![t].stale = FALSE,
                                 ![t].tick_log = Append(@, "open")], t)
    /\ UNCHANGED <<riskVars, orderVars, admVars, engineVars, running_strategies,
                   execution_threads, strategy_states, api, accepted, em_done>>

\* get_position at the end of the pass for a symbol, up to its has_position
\* test: without a position the pass is over.
WorkerStopCheck(t) ==
    /\ threads[t].pc = "stopcheck"
    /\ LET th == [threads[t] EXCEPT !.tick_log = Append(@, "stop_check")]
       IN  threads' = [threads EXCEPT ![t] =
               IF has_position(position_manager, th.strategy_id, SymbolOf(t))
               THEN [th EXCEPT !.pc = "stop_get"]
               ELSE NextSymbol(th)]
    /\ UNCHANGED <<riskVars, orderVars, admVars, engineVars, position_manager,
                   running_strategies, execution_threads, strategy_states, api,
                   accepted, em_done>>

\* `except Exception` of the iteration: the pass over the symbols is given up,
\* stop_flag.wait(timeout=10), and the worker is back at the top.
IterationError(th) ==
    [th EXCEPT !.pc = "top", !.idx = 0, !.stop_loss = None, !.reason = "none",
               !.tick_log = <<>>, !.held_at_start = FALSE, !.stale = FALSE]

\* The rest of get_position, self.positions[strategy_id][symbol], and the
\* stop-loss and take-profit check on the position.  When another thread has
\* removed the position since the has_position test the subscript raises
\* KeyError, which no handler inside the loop over the symbols catches.
WorkerStopGet(t) ==
    /\ threads[t].pc = "stop_get"
    /\ LET th == threads[t]
           position == position_manager[th.strategy_id][SymbolOf(t)]
       IN  threads' = [threads EXCEPT ![t] =
               IF position = NoPosition
               THEN IterationError(th)
               ELSE IF check_stop_loss(CurrentPrice, position)
               THEN [th EXCEPT !.pc = "sell_place", !.reason = "stop_loss"]
               ELSE IF check_take_profit(CurrentPrice, position)
               THEN [th EXCEPT !.pc = "sell_place", !.reason = "take_profit"]
               ELSE NextSymbol(th)]
    /\ UNCHANGED <<riskVars, orderVars, admVars, engineVars, position_manager,
                   running_strategies, execution_threads, strategy_states, api,
                   accepted, em_done>>

\* _execute_sell up to the broker's answer: get_position and
\* trading_engine.place_order(side='sell').
WorkerSellPlace(t) ==
    /\ threads[t].pc = "sell_place"
    /\ IF ~has_position(position_manager, threads[t].strategy_id, SymbolOf(t))
       THEN /\ threads' = [threads EXCEPT ![t] = AfterSell(@)]
            /\ UNCHANGED accepted
       ELSE \/ /\ accepted.total < MaxOrders
               /\ accepted' = AcceptOrder(PairOf(threads[t].strategy_id,
                                                 SymbolOf(t)), "sell", FALSE)
               /\ threads' = [threads EXCEPT ![t].pc = "sell_remove"]
            \/ /\ threads' = [threads EXCEPT ![t] = AfterSell(@)]
               /\ UNCHANGED accepted
    /\ UNCHANGED <<riskVars, orderVars, admVars, engineVars, position_manager,
                   running_strategies, execution_threads, strategy_states, api,
                   em_done>>

\* The rest of _execute_sell: the trade is logged, then remove_position.
WorkerSellRemove(t) ==
    /\ threads[t].pc = "sell_remove"
    /\ position_manager' = remove_position(position_manager,
                               threads[t].strategy_id, SymbolOf(t))
    /\ threads' = MarkStale([threads EXCEPT ![t] = AfterSell(@)], t)
    /\ UNCHANGED <<riskVars, orderVars, admVars, engineVars, running_strategies,
                   execution_threads, strategy_states, api, accepted, em_done>>

ApiIdle == [op |-> "idle", strategy_id |-> "none", todo |-> <<>>, failed |-> FALSE]

\* thread.join(timeout=5.0) returns: the thread has ended, or five seconds
\* have passed while it is still inside the pass for a symbol (a market-data
\* or broker call that has not returned).
JoinReturns(t) ==
    threads[t].pc \notin {"top", "halt_wait", "sym"}

\* POST /{strategy_id}/start: StrategyExecutor.start_strategy and, when it
\* succeeds, strategy_states[strategy_id] = "active".  A refused start
\* (already running) changes nothing.
ApiStartStrategy(strategy_id) ==
    /\ api.op = "idle"
    /\ IF strategy_id \in running_strategies
       THEN UNCHANGED <<threads, running_strategies, execution_threads,
                        strategy_states, em_done>>
       ELSE /\ \E t \in ThreadIds : threads[t].pc = "unborn"
            /\ LET t == CHOOSE u \in ThreadIds :
                            /\ threads[u].pc = "unborn"
                            /\ \A v \in ThreadIds :
                                   threads[v].pc = "unborn" => u <= v
               IN  /\ threads' = [threads EXCEPT ![t] =
                          [Unborn EXCEPT !.pc = "top",
                                         !.strategy_id = strategy_id]]
                   /\ execution_threads' =
                          [execution_threads EXCEPT ![strategy_id] = t]
            /\ running_strategies' = running_strategies \cup {strategy_id}
            /\ strategy_states' = [strategy_states EXCEPT ![strategy_id] = "active"]
            /\ em_done' = FALSE
    /\ UNCHANGED <<riskVars, orderVars, admVars, engineVars, position_manager, api, accepted>>

\* POST /{strategy_id}/stop up to thread.join: StrategyExecutor.stop_strategy
\* sets the stop flag.  For a strategy that is not running the executor
\* answers False and the handler sets the state to "stopped".
ApiStopStrategy(strategy_id) ==
    /\ api.op = "idle"
    /\ IF strategy_id \notin running_strategies
       THEN /\ strategy_states' = [strategy_states EXCEPT ![strategy_id] = "stopped"]
            /\ UNCHANGED <<threads, api>>
       ELSE /\ threads' = [threads EXCEPT
                              ![execution_threads[strategy_id]].stop_flag = TRUE]
            /\ api' = [ApiIdle EXCEPT !.op = "stop_join",
                                      !.strategy_id = strategy_id]
            /\ UNCHANGED strategy_states
    /\ UNCHANGED <<riskVars, orderVars, admVars, engineVars, position_manager,
                   running_strategies, execution_threads, accepted, em_done>>

\* The rest of stop_strategy, after thread.join: the three tables drop the
\* strategy whether the thread has ended or not.
ApiStopJoin ==
    /\ api.op = "stop_join"
    /\ JoinReturns(execution_threads[api.strategy_id])
    /\ running_strategies' = running_strategies \ {api.strategy_id}
    /\ execution_threads' = [execution_threads EXCEPT ![api.strategy_id] = 0]
    /\ strategy_states' = [strategy_states EXCEPT ![api.strategy_id] = "stopped"]
    /\ api' = ApiIdle
    /\ UNCHANGED <<riskVars, orderVars, admVars, engineVars, position_manager, threads,
                   accepted, em_done>>

\* POST /emergency-stop begins.
ApiEmergencyStop ==
    /\ api.op = "idle"
    /\ api' = [ApiIdle EXCEPT !.op = "em_stop", !.todo = StrategyOrder]
    /\ UNCHANGED <<riskVars, orderVars, admVars, engineVars, position_manager, threads,
                   running_strategies, execution_threads, strategy_states,
                   accepted, em_done>>

\* The snapshot emergency_stop takes of the ledger: strategy, symbol, shares.
EmergencySnapshot(pm) ==
    LET held == get_all_positions(pm)
    IN  [j \in DOMAIN held |->
            [strategy_id |-> held[j].strategy_id, symbol |-> held[j].symbol,
             shares |-> pm[held[j].strategy_id][held[j].symbol].shares]]

\* One turn of the loop over strategy_states: stop_strategy for an active
\* strategy, up to thread.join; after the loop, get_all_positions.
EmergencyStopNext ==
    /\ api.op = "em_stop"
    /\ IF api.todo = <<>>
       THEN /\ api' = [api EXCEPT !.op = "em_close",
                                  !.todo = EmergencySnapshot(position_manager)]
            /\ UNCHANGED threads
       ELSE LET strategy_id == Head(api.todo)
            IN  IF strategy_states[strategy_id] = "active"
                   /\ strategy_id \in running_strategies
                THEN /\ threads' = [threads EXCEPT
                            ![execution_threads[strategy_id]].stop_flag = TRUE]
                     /\ api' = [api EXCEPT !.op = "em_join",
                                           !.strategy_id = strategy_id]
                ELSE /\ api' = [api EXCEPT !.todo = Tail(api.todo)]
                     /\ UNCHANGED threads
    /\ UNCHANGED <<riskVars, orderVars, admVars, engineVars, position_manager,
                   running_strategies, execution_threads, strategy_states,
                   accepted, em_done>>

\* stop_strategy inside emergency_stop, after thread.join.
EmergencyStopJoin ==
    /\ api.op = "em_join"
    /\ JoinReturns(execution_threads[api.strategy_id])
    /\ running_strategies' = running_strategies \ {api.strategy_id}
    /\ execution_threads' = [execution_threads EXCEPT ![api.strategy_id] = 0]
    /\ strategy_states' = [strategy_states EXCEPT ![api.strategy_id] = "stopped"]
    /\ api' = [api EXCEPT !.op = "em_stop", !.strategy_id = "none",
                          !.todo = Tail(api.todo)]
    /\ UNCHANGED <<riskVars, orderVars, admVars, engineVars, position_manager, threads,
                   accepted, em_done>>

\* A close pass that a broker error ends.
CloseAborted(a) == [a EXCEPT !.todo = <<>>, !.failed = TRUE]

\* place_order raised inside the loop over the snapshot: the `except` inside
\* the loop logs it and the loop goes on with the next position.
CloseFailed(a) == [a EXCEPT !.todo = Tail(a.todo), !.failed = TRUE]

\* One turn of the loop over the snapshot: a market sell and remove_position,
\* or the broker raises and the loop goes on; after the loop the handler
\* returns.
EmergencyClose ==
    /\ api.op = "em_close"
    /\ IF api.todo = <<>>
       THEN /\ api' = ApiIdle
            /\ em_done' = ~api.failed
            /\ UNCHANGED <<position_manager, accepted>>
       ELSE LET position == Head(api.todo)
            IN  \/ /\ accepted.total < MaxOrders
                   /\ accepted' = AcceptOrder(PairOf(position.strategy_id,
                                                     position.symbol), "sell",
                                              TRUE)
                   /\ position_manager' = remove_position(position_manager,
                                              position.strategy_id,
                                              position.symbol)
                   /\ api' = [api EXCEPT !.todo = Tail(api.todo)]
                   /\ UNCHANGED em_done
                \/ /\ api' = CloseFailed(api)
                   /\ UNCHANGED <<position_manager, accepted, em_done>>
    /\ UNCHANGED <<riskVars, orderVars, admVars, engineVars, threads, running_strategies,
                   execution_threads, strategy_states>>

\* POST /risk/halt and POST /risk/resume.
ApiManualHalt ==
    /\ api.op = "idle"
    /\ manual_halt

ApiResumeTrading ==
    /\ api.op = "idle"
    /\ resume_trading

ExecNext ==
    \/ \E t \in ThreadIds : WorkerTop(t)
    \/ \E t \in ThreadIds : WorkerHaltWait(t)
    \/ \E t \in ThreadIds : WorkerSymbol(t)
    \/ \E t \in ThreadIds : WorkerBuyCheck(t)
    \/ \E t \in ThreadIds : WorkerBuyPlace(t)
    \/ \E t \in ThreadIds : WorkerBuyAdd(t)
    \/ \E t \in ThreadIds : WorkerStopCheck(t)
    \/ \E t \in ThreadIds : WorkerStopGet(t)
    \/ \E t \in ThreadIds : WorkerSellPlace(t)
    \/ \E t \in ThreadIds : WorkerSellRemove(t)
    \/ \E strategy_id \in Strategies : ApiStartStrategy(strategy_id)
    \/ \E strategy_id \in Strategies : ApiStopStrategy(strategy_id)
    \/ ApiStopJoin
    \/ ApiEmergencyStop
    \/ EmergencyStopNext
    \/ EmergencyStopJoin
    \/ EmergencyClose
    \/ ApiManualHalt
    \/ ApiResumeTrading

\* One step of worker thread t.
WorkerStep(t) ==
    \/ WorkerTop(t)
    \/ WorkerHaltWait(t)
    \/ WorkerSymbol(t)
    \/ WorkerBuyCheck(t)
    \/ WorkerBuyPlace(t)
    \/ WorkerBuyAdd(t)
    \/ WorkerStopCheck(t)
    \/ WorkerStopGet(t)
    \/ WorkerSellPlace(t)
    \/ WorkerSellRemove(t)

\* The strategy that is started and stopped: the one with two symbols.
StoppedStrategy == "mean_reversion"

\* The executor with start and stop requests for one strategy.
StopNext ==
    \/ \E t \in ThreadIds : WorkerStep(t)
    \/ ApiStartStrategy(StoppedStrategy)
    \/ ApiStopStrategy(StoppedStrategy)
    \/ ApiStopJoin
    \/ ApiManualHalt
    \/ ApiResumeTrading

-----------------------------------------------------------------------------
(***************************************************************************)
(* core/portfolio_manager.py                                               *)
(*                                                                         *)
(* PortfolioManager keeps cash, one Position per symbol and the list of    *)
(* trades.  Prices and cash are whole dollars; the average entry price of  *)
(* a position that was added to is a fraction.                             *)
(***************************************************************************)
\* initial_capital of the manager.
InitialCapital == 40

\* Prices a caller passes, and the quantities add_position is called with
\* (execute_signal calls it with position_size > 0 only).
PfPrices == {10, 12}
PfQuantities == {1, 2}

\* Calls of add_position and close_position that record a trade in one run.
MaxTrades == 4

\* The quantity argument of close_position: omitted (None), 0, a part of the
\* position, all of it, more than any position of the run holds.
CloseQuantities == {None} \cup (0 .. 5)

RECURSIVE GCD(_, _)
GCD(a, b) == IF b = 0 THEN a ELSE GCD(b, a % b)

\* The fraction n/d in lowest terms (n >= 0, d > 0).
FracNorm(n, d) == LET g == GCD(n, d) IN Frac(n \div g, d \div g)

\* Position of core/data_structures.py as the manager stores it; present
\* says that the symbol is a key of self.positions.
PfPosition(present, quantity, entry_price, current_price) ==
    [present |-> present, quantity |-> quantity, entry_price |-> entry_price,
     current_price |-> current_price]

PfAbsent == PfPosition(FALSE, 0, Frac(0, 1), 0)

\* TradeRecord: a BUY has no exit price and no P&L.
TradeRecord(symbol, action, entry_price, quantity, exit_price, pnl, pnl_percent) ==
    [symbol |-> symbol, action |-> action, entry_price |-> entry_price,
     quantity |-> quantity, exit_price |-> exit_price, pnl |-> pnl,
     pnl_percent |-> pnl_percent]

PortfolioManagerInit ==
    [cash |-> InitialCapital,
     positions |-> [y \in Symbols |-> PfAbsent],
     trade_history |-> <<>>]

PfRet(op, symbol, quantity, price, ok) ==
    [op |-> op, symbol |-> symbol, quantity |-> quantity, price |-> price,
     ok |-> ok]

\* add_position: the manager after the call.
pf_add_position(pm, symbol, quantity, price) ==
    LET cost == quantity * price
        existing == pm.positions[symbol]
        total_quantity == existing.quantity + quantity
        avg_price == FracNorm(existing.quantity * existing.entry_price.n
                                  + cost * existing.entry_price.d,
                              existing.entry_price.d * total_quantity)
    IN  IF cost > pm.cash
        THEN pm
        ELSE [cash |-> pm.cash - cost,
              positions |-> [pm.positions EXCEPT ![symbol] =
                  IF existing.present
                  THEN PfPosition(TRUE, total_quantity, avg_price, price)
                  ELSE PfPosition(TRUE, quantity, Frac(price, 1), price)],
              trade_history |-> Append(pm.trade_history,
                  TradeRecord(symbol, "BUY", Frac(price, 1), quantity, None,
                              Frac(0, 1), Frac(0, 1)))]

AddPosition(symbol, quantity, price) ==
    /\ Len(portfolio_manager.trade_history) < MaxTrades
    /\ portfolio_manager' = pf_add_position(portfolio_manager, symbol, quantity, price)
    /\ pf_ret' = PfRet("add_position", symbol, quantity, price,
                       quantity * price <= portfolio_manager.cash)
    /\ UNCHANGED <<riskVars, orderVars, admVars, execVars, bt_in,
                   backtest_engine, backtest_runs>>

\* What the broker connection of the TradingEngine does with an order: there
\* is none (self.api is None), it takes the order, or submit_order raises.
BrokerOutcomes == {"no_api", "accepted", "raised"}

\* execute_signal for a BUY signal that has passed check_risk_limits, with
\* the position size calculate_position_size gave: the order goes to the
\* broker, then add_position, whose result is not looked at.  ok is what
\* execute_signal returns, submitted whether the broker has the order.
ExecuteSignal(symbol, position_size, price, broker) ==
    /\ Len(portfolio_manager.trade_history) < MaxTrades
    /\ portfolio_manager' =
           IF broker = "raised"
           THEN portfolio_manager
           ELSE pf_add_position(portfolio_manager, symbol, position_size, price)
    /\ pf_ret' = [op |-> "execute_signal", symbol |-> symbol,
                  quantity |-> position_size, price |-> price,
                  ok |-> broker # "raised", submitted |-> broker = "accepted"]
    /\ UNCHANGED <<riskVars, orderVars, admVars, execVars, bt_in,
                   backtest_engine, backtest_runs>>

\* `close_quantity = quantity or position.quantity`, then the min().
CloseQuantity(quantity, open_quantity) ==
    Min(IF Truthy(quantity) THEN quantity ELSE open_quantity, open_quantity)

\* The deletion test with > in place of >=.
FullCloseStrict(close_quantity, open_quantity) == close_quantity > open_quantity

\* `if close_quantity >= position.quantity:` -- the position is deleted.
FullClose(close_quantity, open_quantity) == close_quantity >= open_quantity

\* The trade close_position records and returns.
ClosingTrade(position, symbol, price, close_quantity) ==
    LET e == position.entry_price
        \* proceeds - cost_basis, over the denominator of the entry price
        pnl == Frac(close_quantity * price * e.d - close_quantity * e.n, e.d)
        cost_basis == Frac(close_quantity * e.n, e.d)
        pnl_percent == IF cost_basis.n > 0
                       THEN Frac(100 * pnl.n, cost_basis.n)
                       ELSE Frac(0, 1)
    IN  TradeRecord(symbol, "SELL", e, close_quantity, price, pnl, pnl_percent)

\* close_position: the manager after the call.
close_position(pm, symbol, price, quantity) ==
    LET position == pm.positions[symbol]
        close_quantity == CloseQuantity(quantity, position.quantity)
    IN  IF ~position.present
        THEN pm
        ELSE [cash |-> pm.cash + close_quantity * price,
              positions |-> [pm.positions EXCEPT ![symbol] =
                  IF FullClose(close_quantity, position.quantity)
                  THEN PfAbsent
                  ELSE [position EXCEPT !.quantity = @ - close_quantity]],
              trade_history |-> Append(pm.trade_history,
                  ClosingTrade(position, symbol, price, close_quantity))]

\* close_position returns None for a symbol without a position, else the trade.
ClosePosition(symbol, price, quantity) ==
    /\ Len(portfolio_manager.trade_history) < MaxTrades
    /\ portfolio_manager' = close_position(portfolio_manager, symbol, price, quantity)
    /\ pf_ret' = PfRet("close_position", symbol, quantity, price,
                       portfolio_manager.positions[symbol].present)
    /\ UNCHANGED <<riskVars, orderVars, admVars, execVars, bt_in,
                   backtest_engine, backtest_runs>>

\* update_prices({symbol: price}).
UpdatePrices(symbol, price) ==
    /\ portfolio_manager' =
           [portfolio_manager EXCEPT !.positions[symbol] =
               IF @.present THEN [@ EXCEPT !.current_price = price] ELSE @]
    /\ pf_ret' = PfRet("update_prices", symbol, None, price, TRUE)
    /\ UNCHANGED <<riskVars, orderVars, admVars, execVars, bt_in,
                   backtest_engine, backtest_runs>>

PortfolioNext ==
    \/ \E symbol \in Symbols, quantity \in PfQuantities, price \in PfPrices :
           AddPosition(symbol, quantity, price)
    \/ \E symbol \in Symbols, price \in PfPrices, quantity \in CloseQuantities :
           ClosePosition(symbol, price, quantity)
    \/ \E symbol \in Symbols, price \in PfPrices : UpdatePrices(symbol, price)
    \/ \E symbol \in Symbols, position_size \in PfQuantities,
          price \in PfPrices, broker \in BrokerOutcomes :
           ExecuteSignal(symbol, position_size, price, broker)

-----------------------------------------------------------------------------
(***************************************************************************)
(* The exit of a held position: the stop-loss and take-profit check of     *)
(* _execute_strategy and the _execute_sell it calls, as a step from one    *)
(* position and one observed price (adm_in) to what is sold, logged and    *)
(* notified (adm_out).  Prices are in dollars.                             *)
(***************************************************************************)
\* A position of the ledger, data['close'].iloc[-1], whether a trading
\* engine with a broker connection is configured, and whether place_order
\* raises.
ExitInputs ==
    [fn : {"check_exit"}, shares : {1, 2, 3}, entry_price : {100},
     stop_loss : {None, 95}, take_profit : {None, 110},
     current_price : {94, 95, 96, 109, 110, 111}, trading_engine : BOOLEAN,
     order_raises : BOOLEAN]

\* Position.unrealized_pnl
unrealized_pnl(position, current_price) ==
    (current_price - position.entry_price) * position.shares

\* The price _execute_sell writes to the trade history and, for a stop-loss,
\* passes to the notification as stop_price.
logged_exit_price(position, current_price) == current_price

NoExit ==
    [fn |-> "check_exit", reason |-> "none", closed |-> FALSE,
     order_quantity |-> 0, price |-> None, stop_price |-> None, pnl |-> 0]

\* _execute_sell(strategy_id, symbol, current_price, reason)
execute_sell(position, current_price, reason, trading_engine, order_raises) ==
    IF ~trading_engine \/ order_raises
    THEN [NoExit EXCEPT !.reason = reason]
    ELSE [fn |-> "check_exit", reason |-> reason, closed |-> TRUE,
          order_quantity |-> position.shares,
          price |-> logged_exit_price(position, current_price),
          stop_price |-> IF reason = "stop_loss"
                         THEN logged_exit_price(position, current_price)
                         ELSE None,
          pnl |-> unrealized_pnl(position, current_price)]

\* `if position:` and the two checks under it.
check_exit(position, current_price, trading_engine, order_raises) ==
    IF check_stop_loss(current_price, position)
    THEN execute_sell(position, current_price, "stop_loss", trading_engine,
                      order_raises)
    ELSE IF check_take_profit(current_price, position)
    THEN execute_sell(position, current_price, "take_profit", trading_engine,
                      order_raises)
    ELSE NoExit

CheckExit ==
    /\ adm_in.fn = "check_exit"
    /\ adm_out.fn = "none"
    /\ adm_out' = check_exit(Position(adm_in.shares, adm_in.entry_price,
                                       adm_in.stop_loss, adm_in.take_profit),
                             adm_in.current_price, adm_in.trading_engine,
                             adm_in.order_raises)
    /\ UNCHANGED <<adm_in, riskVars, orderVars, execVars, engineVars>>

-----------------------------------------------------------------------------
(***************************************************************************)
(* core/backtester.py: run_backtest over the bars fetch_data_parallel      *)
(* returns.  The bars of a symbol are its closes after the lookback        *)
(* window; what the strategies and a trained predictor make of them is     *)
(* part of the input and the same in every run.  The technical momentum,   *)
(* mean reversion and trend following signals are functions of the bars    *)
(* alone and stand under one technical signal.                             *)
(***************************************************************************)
BtSymbols == <<"SPY", "QQQ">>
BtSymbolSet == {BtSymbols[k] : k \in DOMAIN BtSymbols}
BtCloses == [SPY |-> <<10, 12, 2>>, QQQ |-> <<20, 18, 23>>]
BtCapital == 100
MaxRuns == 2

\* TradingConfig.MIN_CONFIDENCE and ML_CONFIDENCE_THRESHOLD, in percent.
MinConfidencePct == 60
MLConfidenceThresholdPct == 60

BtTechSignals ==
    {<<"BUY", "HOLD", "SELL">>, <<"HOLD", "BUY", "HOLD">>,
     <<"BUY", "HOLD", "HOLD">>}

\* tech: the technical signal at each bar.  trainable: whether
\* ml_predictor.train is called for the symbol and succeeds (a third of the
\* bars is 50 or more and prepare_features has ML_MIN_SAMPLES clean rows).
\* ml: the signal of a predictor trained on one symbol for the bars of
\* another, with its confidence.  flat: the fourteen bars up to the first
\* bar of the walk have high = low = close = the close before, so that the
\* rolling mean of the true range is 0 at that bar; the technical scores
\* give no signal on such bars.  commission: the amount run_backtest hands
\* to _backtest_symbol, None when the caller leaves it out.
BtInputs ==
    {in \in [tech : [BtSymbolSet -> BtTechSignals],
             trainable : [BtSymbolSet -> BOOLEAN],
             ml : [BtSymbolSet \X BtSymbolSet -> {"BUY", "SELL"}],
             ml_confidence : {50, 80},
             strategy : {"Technical Momentum", "ML Hybrid"},
             flat : BOOLEAN,
             commission : {None, 0, 10}] :
        in.flat => \A symbol \in BtSymbolSet : in.tech[symbol][1] = "HOLD"}

BtNoInput == [strategy |-> "none"]

\* MLPredictor.__init__ inside BacktestEngine.__init__
BacktestEngineInit == [is_trained |-> FALSE, trained_on |-> "none"]

\* fetch_data_parallel: the dict is filled as the fetches complete, so its
\* key order is any order of the symbols.
CompletionOrders ==
    {o \in [1..Len(BtSymbols) -> BtSymbolSet] :
        \A a, b \in 1..Len(BtSymbols) : a # b => o[a] # o[b]}

\* self.ml_predictor.train(train_data) under `if train_size >= 50`: a
\* skipped or failed training leaves the models as they are.
ml_train(engine, in, symbol) ==
    IF in.trainable[symbol]
    THEN [is_trained |-> TRUE, trained_on |-> symbol]
    ELSE engine

\* df['atr'].iloc[-1] at bar i: calculate_atr is the 14-bar rolling mean of
\* the true range.
bt_atr(in, i) == IF in.flat /\ i = 1 THEN 0 ELSE 1

\* TradeSignal with the stop and the target of the strategies: two and
\* three ATRs from the price.
TradeSignal(action, confidence, strategy, price, atr) ==
    [action |-> action, confidence |-> confidence, strategy |-> strategy,
     stop_loss |-> IF action = "BUY" THEN price - 2 * atr ELSE price + 2 * atr,
     take_profit |-> IF action = "BUY" THEN price + 3 * atr
                     ELSE price - 3 * atr]

\* _get_strategy_signals
get_strategy_signals(engine, in, symbol, i) ==
    LET price == BtCloses[symbol][i]
        tech == IF in.tech[symbol][i] = "HOLD"
                THEN <<>>
                ELSE <<TradeSignal(in.tech[symbol][i], 70, "Technical Momentum",
                                   price, bt_atr(in, i))>>
        ml == IF engine.is_trained
                 /\ in.ml_confidence >= MLConfidenceThresholdPct
              THEN <<TradeSignal(in.ml[<<engine.trained_on, symbol>>],
                                 in.ml_confidence, "ML Prediction", price,
                                 bt_atr(in, i))>>
              ELSE <<>>
    IN  IF in.strategy = "Technical Momentum" THEN tech ELSE tech \o ml

\* max(signals, key=lambda x: x.confidence): the first of the largest.
best_signal(signals) ==
    LET k == CHOOSE a \in DOMAIN signals :
                 /\ \A b \in DOMAIN signals :
                        signals[b].confidence <= signals[a].confidence
                 /\ \A b \in 1..(a - 1) :
                        signals[b].confidence < signals[a].confidence
    IN  signals[k]

\* _create_trade_record
create_trade_record(position, exit_price, pnl, exit_date, exit_reason) ==
    [symbol |-> position.symbol, entry_date |-> position.entry_date,
     exit_date |-> exit_date, entry_price |-> position.entry_price,
     exit_price |-> exit_price, quantity |-> position.quantity, pnl |-> pnl,
     strategy |-> position.strategy, exit_reason |-> exit_reason]

BtFlat == [symbol |-> "none"]

\* The exit of the position at exit_price.  cash_low is the lowest cash
\* balance of the walk so far.
bt_exit(st, exit_price, exit_date, exit_reason, commission) ==
    LET proceeds == st.position.quantity * exit_price - commission
        pnl == proceeds - st.position.quantity * st.position.entry_price
    IN  [st EXCEPT !.capital = st.capital + proceeds,
                   !.cash_low = Min(st.cash_low, st.capital + proceeds),
                   !.position = BtFlat,
                   !.trades = Append(st.trades,
                       create_trade_record(st.position, exit_price, pnl,
                                           exit_date, exit_reason))]

\* One bar of the walk of _backtest_symbol: the equity record, the signal,
\* the entry or the signal exit, and the stop-loss and take-profit check.
\* With no commission handed in, `position_size * current_price + commission`
\* raises TypeError and the run ends there.  entries counts the positions
\* opened.
bt_bar(st, engine, in, symbol, i) ==
    LET price == BtCloses[symbol][i]
        held == st.position # BtFlat
        position_value == IF held THEN st.position.quantity * price ELSE 0
        st1 == [st EXCEPT !.equity_curve = Append(st.equity_curve,
                    [date |-> i, equity |-> st.capital + position_value,
                     cash |-> st.capital, positions_value |-> position_value,
                     symbol |-> symbol])]
        signals == get_strategy_signals(engine, in, symbol, i)
        best == best_signal(signals)
        position_size == (st.capital * 95) \div (100 * price)
        cost == position_size * price + in.commission
        st2 == IF signals = <<>>
               THEN st1
               ELSE IF best.action = "BUY" /\ ~held
                       /\ best.confidence >= MinConfidencePct
               THEN IF position_size > 0 /\ in.commission = None
                    THEN [st1 EXCEPT !.raised = TRUE]
                    ELSE IF position_size > 0 /\ cost <= st.capital
                    THEN [st1 EXCEPT !.capital = st.capital - cost,
                                     !.cash_low = Min(st.cash_low,
                                                      st.capital - cost),
                                     !.entries = st.entries + 1,
                                     !.position =
                                         [symbol |-> symbol,
                                          quantity |-> position_size,
                                          entry_price |-> price,
                                          entry_date |-> i,
                                          stop_loss |-> best.stop_loss,
                                          take_profit |-> best.take_profit,
                                          strategy |-> best.strategy]]
                    ELSE st1
               ELSE IF best.action = "SELL" /\ held
               THEN bt_exit(st1, price, i, "signal_exit", in.commission)
               ELSE st1
    IN  IF st2.raised \/ st2.position = BtFlat
        THEN st2
        ELSE IF st2.position.stop_loss # 0 /\ price <= st2.position.stop_loss
        THEN bt_exit(st2, st2.position.stop_loss, i, "stop_loss", in.commission)
        ELSE IF st2.position.take_profit # 0
                /\ price >= st2.position.take_profit
        THEN bt_exit(st2, st2.position.take_profit, i, "take_profit",
                     in.commission)
        ELSE st2

\* The walk from bar i on.  The state after a bar is bound as one value
\* before the walk goes on.
RECURSIVE bt_walk(_, _, _, _, _)
bt_walk(st, engine, in, symbol, i) ==
    IF i > Len(BtCloses[symbol]) \/ st.raised
    THEN st
    ELSE CHOOSE out \in {bt_walk(next, engine, in, symbol, i + 1) :
                            next \in {bt_bar(st, engine, in, symbol, i)}} : TRUE

\* `if position:` after the walk: what is left is closed at the final price.
bt_close(st, in, symbol) ==
    IF st.raised \/ st.position = BtFlat
    THEN st
    ELSE bt_exit(st, BtCloses[symbol][Len(BtCloses[symbol])],
                 Len(BtCloses[symbol]), "end_of_backtest", in.commission)

\* _backtest_symbol: the training, the walk over the bars and the close of
\* what is left.  ends is what the walk of the symbol ended with: the
\* position, the cash, the lowest cash and the number of entries.
backtest_symbol(engine, in, symbol, initial_capital) ==
    LET trained == ml_train(engine, in, symbol)
        start == [capital |-> initial_capital, position |-> BtFlat,
                  trades |-> <<>>, equity_curve |-> <<>>, raised |-> FALSE,
                  entries |-> 0, cash_low |-> initial_capital]
    IN  CHOOSE out \in
            {[engine |-> trained, trades |-> final.trades,
              equity_curve |-> final.equity_curve, raised |-> final.raised,
              ends |-> <<[symbol |-> symbol, position |-> final.position,
                          capital |-> final.capital,
                          cash_low |-> final.cash_low,
                          entries |-> final.entries]>>] :
                final \in {bt_close(st, in, symbol) :
                              st \in {bt_walk(start, trained, in, symbol, 1)}}} :
            TRUE

\* all_trades.extend(trades) and all_equity.extend(equity)
bt_extend(res, r) ==
    [engine |-> r.engine, trades |-> res.trades \o r.trades,
     equity_curve |-> res.equity_curve \o r.equity_curve,
     raised |-> r.raised, ends |-> res.ends \o r.ends]

\* `for symbol, data in valid_data.items():` from the k-th key on.
RECURSIVE backtest_symbols(_, _, _, _, _)
backtest_symbols(res, in, order, k, capital_per_symbol) ==
    IF k > Len(order) \/ res.raised
    THEN res
    ELSE CHOOSE out \in
             {backtest_symbols(next, in, order, k + 1, capital_per_symbol) :
                 next \in {bt_extend(res, r) :
                              r \in {backtest_symbol(res.engine, in, order[k],
                                                     capital_per_symbol)}}} :
             TRUE

\* run_backtest on the engine, the fetches completing in the given order.
run_backtest(engine, in, order) ==
    backtest_symbols([engine |-> engine, trades |-> <<>>,
                      equity_curve |-> <<>>, raised |-> FALSE, ends |-> <<>>],
                     in, order, 1, BtCapital \div Len(order))

\* One call of run_backtest.  A call that raised has returned no result.
RunBacktest(order) ==
    /\ Len(backtest_runs) < MaxRuns
    /\ \E r \in {run_backtest(backtest_engine, bt_in, order)} :
           /\ backtest_engine' = r.engine
           /\ backtest_runs' = Append(backtest_runs,
                  [order |-> order, engine_before |-> backtest_engine,
                   raised |-> r.raised,
                   trades |-> IF r.raised THEN <<>> ELSE r.trades,
                   equity_curve |-> IF r.raised THEN <<>>
                                    ELSE r.equity_curve,
                   ends |-> IF r.raised THEN <<>> ELSE r.ends])
    /\ UNCHANGED <<bt_in, portfolio_manager, pf_ret, riskVars, orderVars,
                   admVars, execVars>>

\* BacktestEngine(...): the caller makes a new engine for its next run.
NewBacktestEngine ==
    /\ backtest_engine # BacktestEngineInit
    /\ Len(backtest_runs) < MaxRuns
    /\ backtest_engine' = BacktestEngineInit
    /\ UNCHANGED <<bt_in, backtest_runs, portfolio_manager, pf_ret, riskVars,
                   orderVars, admVars, execVars>>

BacktestNext ==
    \/ \E order \in CompletionOrders : RunBacktest(order)
    \/ NewBacktestEngine

-----------------------------------------------------------------------------
(***************************************************************************)
(* Specifications: one per component, the other components idle.           *)
(***************************************************************************)
InitRisk ==
    /\ clock = 0
    /\ daily_risk_manager = DailyRiskManagerInit
    /\ risk_ret = [op |-> "init", arg |-> None, ok |-> TRUE, reason |-> NoReason]
    /\ trading_mode = "analysis"
    /\ alpaca_api = FALSE
    /\ om_now = 0
    /\ order_objs = <<>>
    /\ orders = <<>>
    /\ om_ret = OmRet("init", None, TRUE, "none")
    /\ adm_in = [fn |-> "none"]
    /\ adm_out = AdmNone
    /\ position_manager = [s \in Strategies |-> [y \in Symbols |-> NoPosition]]
    /\ threads = [t \in ThreadIds |-> Unborn]
    /\ running_strategies = {}
    /\ execution_threads = [s \in Strategies |-> 0]
    /\ strategy_states = [s \in Strategies |-> "stopped"]
    /\ api = ApiIdle
    /\ accepted = [total |-> 0, forced |-> FALSE,
                   net |-> [pr \in {AllPairs[k] : k \in DOMAIN AllPairs} |-> 0]]
    /\ em_done = FALSE
    /\ portfolio_manager = PortfolioManagerInit
    /\ pf_ret = PfRet("init", "none", None, None, TRUE)
    /\ bt_in = BtNoInput
    /\ backtest_engine = BacktestEngineInit
    /\ backtest_runs = <<>>

SpecRisk == InitRisk /\ [][RiskNext]_vars

InitOrder ==
    /\ clock = 0
    /\ daily_risk_manager = DailyRiskManagerInit
    /\ risk_ret = [op |-> "init", arg |-> None, ok |-> TRUE, reason |-> NoReason]
    /\ trading_mode \in TradingModes
    /\ alpaca_api \in IF trading_mode \in {"live", "paper"}
                      THEN {TRUE, FALSE} ELSE {FALSE}
    /\ om_now = 0
    /\ order_objs = <<>>
    /\ orders = <<>>
    /\ om_ret = OmRet("init", None, TRUE, "none")
    /\ adm_in = [fn |-> "none"]
    /\ adm_out = AdmNone
    /\ position_manager = [s \in Strategies |-> [y \in Symbols |-> NoPosition]]
    /\ threads = [t \in ThreadIds |-> Unborn]
    /\ running_strategies = {}
    /\ execution_threads = [s \in Strategies |-> 0]
    /\ strategy_states = [s \in Strategies |-> "stopped"]
    /\ api = ApiIdle
    /\ accepted = [total |-> 0, forced |-> FALSE,
                   net |-> [pr \in {AllPairs[k] : k \in DOMAIN AllPairs} |-> 0]]
    /\ em_done = FALSE
    /\ portfolio_manager = PortfolioManagerInit
    /\ pf_ret = PfRet("init", "none", None, None, TRUE)
    /\ bt_in = BtNoInput
    /\ backtest_engine = BacktestEngineInit
    /\ backtest_runs = <<>>

SpecOrder == InitOrder /\ [][OrderNext]_vars

InitAdmit ==
    /\ clock = 0
    /\ daily_risk_manager = DailyRiskManagerInit
    /\ risk_ret = [op |-> "init", arg |-> None, ok |-> TRUE, reason |-> NoReason]
    /\ trading_mode = "analysis"
    /\ alpaca_api = FALSE
    /\ om_now = 0
    /\ order_objs = <<>>
    /\ orders = <<>>
    /\ om_ret = OmRet("init", None, TRUE, "none")
    /\ adm_in \in CanOpenInputs \cup AdjustInputs \cup SizerInputs
                   \cup ClusterInputs \cup KellyInputs \cup SharesInputs
                   \cup FindClusterInputs
    /\ adm_out = AdmNone
    /\ position_manager = [s \in Strategies |-> [y \in Symbols |-> NoPosition]]
    /\ threads = [t \in ThreadIds |-> Unborn]
    /\ running_strategies = {}
    /\ execution_threads = [s \in Strategies |-> 0]
    /\ strategy_states = [s \in Strategies |-> "stopped"]
    /\ api = ApiIdle
    /\ accepted = [total |-> 0, forced |-> FALSE,
                   net |-> [pr \in {AllPairs[k] : k \in DOMAIN AllPairs} |-> 0]]
    /\ em_done = FALSE
    /\ portfolio_manager = PortfolioManagerInit
    /\ pf_ret = PfRet("init", "none", None, None, TRUE)
    /\ bt_in = BtNoInput
    /\ backtest_engine = BacktestEngineInit
    /\ backtest_runs = <<>>

SpecAdmit == InitAdmit /\ [][AdmitNext]_vars

InitExec ==
    /\ clock = 0
    /\ daily_risk_manager = DailyRiskManagerInit
    /\ risk_ret = [op |-> "init", arg |-> None, ok |-> TRUE, reason |-> NoReason]
    /\ trading_mode = "analysis"
    /\ alpaca_api = FALSE
    /\ om_now = 0
    /\ order_objs = <<>>
    /\ orders = <<>>
    /\ om_ret = OmRet("init", None, TRUE, "none")
    /\ adm_in = [fn |-> "none"]
    /\ adm_out = AdmNone
    /\ position_manager = [s \in Strategies |-> [y \in Symbols |-> NoPosition]]
    /\ threads = [t \in ThreadIds |-> Unborn]
    /\ running_strategies = {}
    /\ execution_threads = [s \in Strategies |-> 0]
    /\ strategy_states = [s \in Strategies |-> "stopped"]
    /\ api = ApiIdle
    /\ accepted = [total |-> 0, forced |-> FALSE,
                   net |-> [pr \in {AllPairs[k] : k \in DOMAIN AllPairs} |-> 0]]
    /\ em_done = FALSE
    /\ portfolio_manager = PortfolioManagerInit
    /\ pf_ret = PfRet("init", "none", None, None, TRUE)
    /\ bt_in = BtNoInput
    /\ backtest_engine = BacktestEngineInit
    /\ backtest_runs = <<>>

SpecExec == InitExec /\ [][ExecNext]_vars

\* The ledger that holds the pairs of H, each bought at the last close with a
\* stop two below it.
CloseLedger(H) ==
    [s \in Strategies |-> [y \in Symbols |->
        IF PairOf(s, y) \in H
        THEN Position((PortfolioValue \div 100) \div CurrentPrice, CurrentPrice,
                      CurrentPrice - 2, None)
        ELSE NoPosition]]

\* The kill switch with no strategy running: the ledger holds what earlier
\* buys have left in it, and the broker's books count orders from here on.
InitClose ==
    /\ clock = 0
    /\ daily_risk_manager = DailyRiskManagerInit
    /\ risk_ret = [op |-> "init", arg |-> None, ok |-> TRUE, reason |-> NoReason]
    /\ trading_mode = "analysis"
    /\ alpaca_api = FALSE
    /\ om_now = 0
    /\ order_objs = <<>>
    /\ orders = <<>>
    /\ om_ret = OmRet("init", None, TRUE, "none")
    /\ adm_in = [fn |-> "none"]
    /\ adm_out = AdmNone
    /\ \E H \in SUBSET {AllPairs[k] : k \in DOMAIN AllPairs} :
          /\ position_manager = CloseLedger(H)
          /\ accepted = [total |-> 0, forced |-> FALSE,
                         net |-> [pr \in {AllPairs[k] : k \in DOMAIN AllPairs} |->
                                     IF pr \in H THEN 1 ELSE 0]]
    /\ threads = [t \in ThreadIds |-> Unborn]
    /\ running_strategies = {}
    /\ execution_threads = [s \in Strategies |-> 0]
    /\ strategy_states = [s \in Strategies |-> "stopped"]
    /\ api = ApiIdle
    /\ em_done = FALSE
    /\ portfolio_manager = PortfolioManagerInit
    /\ pf_ret = PfRet("init", "none", None, None, TRUE)
    /\ bt_in = BtNoInput
    /\ backtest_engine = BacktestEngineInit
    /\ backtest_runs = <<>>

CloseNext ==
    \/ ApiEmergencyStop
    \/ EmergencyStopNext
    \/ EmergencyClose

SpecClose == InitClose /\ [][CloseNext]_vars

\* Every thread the operating system has started is scheduled again and
\* again, its market-data and broker calls return, and a join returns.
SpecStop ==
    /\ InitExec
    /\ [][StopNext]_vars
    /\ \A t \in ThreadIds : WF_vars(WorkerStep(t))
    /\ WF_vars(ApiStopJoin)

InitPortfolio ==
    /\ clock = 0
    /\ daily_risk_manager = DailyRiskManagerInit
    /\ risk_ret = [op |-> "init", arg |-> None, ok |-> TRUE, reason |-> NoReason]
    /\ trading_mode = "analysis"
    /\ alpaca_api = FALSE
    /\ om_now = 0
    /\ order_objs = <<>>
    /\ orders = <<>>
    /\ om_ret = OmRet("init", None, TRUE, "none")
    /\ adm_in = [fn |-> "none"]
    /\ adm_out = AdmNone
    /\ position_manager = [s \in Strategies |-> [y \in Symbols |-> NoPosition]]
    /\ threads = [t \in ThreadIds |-> Unborn]
    /\ running_strategies = {}
    /\ execution_threads = [s \in Strategies |-> 0]
    /\ strategy_states = [s \in Strategies |-> "stopped"]
    /\ api = ApiIdle
    /\ accepted = [total |-> 0, forced |-> FALSE,
                   net |-> [pr \in {AllPairs[k] : k \in DOMAIN AllPairs} |-> 0]]
    /\ em_done = FALSE
    /\ portfolio_manager = PortfolioManagerInit
    /\ pf_ret = PfRet("init", "none", None, None, TRUE)
    /\ bt_in = BtNoInput
    /\ backtest_engine = BacktestEngineInit
    /\ backtest_runs = <<>>

SpecPortfolio == InitPortfolio /\ [][PortfolioNext]_vars

InitExit ==
    /\ clock = 0
    /\ daily_risk_manager = DailyRiskManagerInit
    /\ risk_ret = [op |-> "init", arg |-> None, ok |-> TRUE, reason |-> NoReason]
    /\ trading_mode = "analysis"
    /\ alpaca_api = FALSE
    /\ om_now = 0
    /\ order_objs = <<>>
    /\ orders = <<>>
    /\ om_ret = OmRet("init", None, TRUE, "none")
    /\ adm_in \in ExitInputs
    /\ adm_out = AdmNone
    /\ position_manager = [s \in Strategies |-> [y \in Symbols |-> NoPosition]]
    /\ threads = [t \in ThreadIds |-> Unborn]
    /\ running_strategies = {}
    /\ execution_threads = [s \in Strategies |-> 0]
    /\ strategy_states = [s \in Strategies |-> "stopped"]
    /\ api = ApiIdle
    /\ accepted = [total |-> 0, forced |-> FALSE,
                   net |-> [pr \in {AllPairs[k] : k \in DOMAIN AllPairs} |-> 0]]
    /\ em_done = FALSE
    /\ portfolio_manager = PortfolioManagerInit
    /\ pf_ret = PfRet("init", "none", None, None, TRUE)
    /\ bt_in = BtNoInput
    /\ backtest_engine = BacktestEngineInit
    /\ backtest_runs = <<>>

SpecExit == InitExit /\ [][CheckExit]_vars

InitBacktest ==
    /\ clock = 0
    /\ daily_risk_manager = DailyRiskManagerInit
    /\ risk_ret = [op |-> "init", arg |-> None, ok |-> TRUE, reason |-> NoReason]
    /\ trading_mode = "analysis"
    /\ alpaca_api = FALSE
    /\ om_now = 0
    /\ order_objs = <<>>
    /\ orders = <<>>
    /\ om_ret = OmRet("init", None, TRUE, "none")
    /\ adm_in = [fn |-> "none"]
    /\ adm_out = AdmNone
    /\ position_manager = [s \in Strategies |-> [y \in Symbols |-> NoPosition]]
    /\ threads = [t \in ThreadIds |-> Unborn]
    /\ running_strategies = {}
    /\ execution_threads = [s \in Strategies |-> 0]
    /\ strategy_states = [s \in Strategies |-> "stopped"]
    /\ api = ApiIdle
    /\ accepted = [total |-> 0, forced |-> FALSE,
                   net |-> [pr \in {AllPairs[k] : k \in DOMAIN AllPairs} |-> 0]]
    /\ em_done = FALSE
    /\ portfolio_manager = PortfolioManagerInit
    /\ pf_ret = PfRet("init", "none", None, None, TRUE)
    /\ bt_in \in BtInputs
    /\ backtest_engine = BacktestEngineInit
    /\ backtest_runs = <<>>

SpecBacktest == InitBacktest /\ [][BacktestNext]_vars

-----------------------------------------------------------------------------
(***************************************************************************)
(* C1: daily halt latch.  After an update_portfolio_value call that        *)
(* observes dailyPnL / startingPortfolioValue <= -maxDailyLossPct the      *)
(* halted flag is true; and on the same trading day the flag goes from     *)
(* true to false only in resume_trading (a change of the manager's day is  *)
(* the rollover).                                                          *)
(***************************************************************************)
\* dailyPnL / startingPortfolioValue <= -maxDailyLossPct (2%), the ratio being
\* defined for a starting value above 0.
C1_Breach ==
    /\ daily_risk_manager.starting_portfolio_value > 0
    /\ 100 * daily_risk_manager.daily_pnl
           <= -(2 * daily_risk_manager.starting_portfolio_value)

C1_BreachHalts ==
    (risk_ret.op = "update_portfolio_value" /\ C1_Breach)
        => daily_risk_manager.trading_halted

C1_Latched ==
    (daily_risk_manager.trading_halted /\ ~daily_risk_manager'.trading_halted)
        => \/ risk_ret'.op = "resume_trading"
           \/ daily_risk_manager'.today # daily_risk_manager.today

C1_HaltLatch == [](C1_BreachHalts) /\ [][C1_Latched]_vars

\* A breach halted trading and a later update on the same day reports a
\* recovered value (within the limit) while the flag is still set.
C1_Witness ==
    /\ risk_ret.op = "update_portfolio_value"
    /\ daily_risk_manager.trading_halted
    /\ daily_risk_manager.halt_reason.kind = "Daily loss limit reached"
    /\ daily_risk_manager.starting_portfolio_value > 0
    /\ ~C1_Breach

-----------------------------------------------------------------------------
(***************************************************************************)
(* C2: whenever an admission check approves a candidate (approved result,  *)
(* non-zero size returned), the portfolio heat over the open positions     *)
(* plus the approved candidate, the sum of |entry - stop| * shares divided *)
(* by the portfolio value, is not above the check's maxHeat: 25% for       *)
(* can_open_new_position, 6% for the PortfolioHeatManager and the sizer    *)
(* that uses it.                                                           *)
(***************************************************************************)
\* The sum of |entry - stop| * shares over positions that have a stop.
RECURSIVE C2_Risk(_)
C2_Risk(positions) ==
    IF positions = <<>>
    THEN Frac(0, 1)
    ELSE LET p == Head(positions)
         IN  IF p.stop_loss = None
             THEN C2_Risk(Tail(positions))
             ELSE FracAdd(Frac(Abs(p.entry_price - p.stop_loss) * p.shares.n,
                               p.shares.d),
                          C2_Risk(Tail(positions)))

C2_CanOpenWithinHeat ==
    (adm_out.fn = "can_open_new_position" /\ adm_out.approved)
        => FracLeq(C2_Risk(Append(adm_in.existing_positions,
                       PositionDict(adm_in.symbol,
                           Frac(adm_in.position_value, adm_in.entry_price),
                           adm_in.entry_price, adm_in.entry_price,
                           adm_in.stop_loss_price))),
                   Frac(25 * adm_in.portfolio_value, 100))

\* The candidate's risk scales with the size that is returned.
C2_AdjustWithinHeat ==
    (adm_out.fn = "adjust_position_size" /\ adm_out.size > 0)
        => LET \* twice the part of the proposed size that is returned
               halves == (2 * adm_out.size) \div adm_in.proposed_size
           IN  2 * adm_in.current_heat * adm_in.portfolio_value
                   + 10000 * adm_in.new_position_risk * halves
                 <= 2 * 600 * adm_in.portfolio_value

C2_SizerWithinHeat ==
    (adm_out.fn = "calculate_position_size" /\ adm_out.size > 0)
        => FracLeq(C2_Risk(Append(adm_in.open_positions,
                       PositionDict("SPY", Frac(adm_out.size, 1), adm_in.price,
                                    adm_in.price, adm_in.stop_loss))),
                   Frac(6 * adm_in.portfolio_value, 100))

C2_AdmitWithinMaxHeat ==
    /\ C2_CanOpenWithinHeat
    /\ C2_AdjustWithinHeat
    /\ C2_SizerWithinHeat

\* The sizer has returned a non-zero size although the heat of the open
\* positions was in the warning band.
C2_Witness ==
    /\ adm_out.fn = "calculate_position_size"
    /\ adm_out.size > 0
    /\ adm_out.reason = "REDUCE_SIZE"

-----------------------------------------------------------------------------
(***************************************************************************)
(* Claims about the order state machine, stated over the steps of          *)
(* SpecOrder.                                                              *)
(***************************************************************************)
TerminalStatuses == {"filled", "canceled", "rejected", "expired"}

\* C3: an order's status only advances forward: no step takes an order from
\* Submitted or PartiallyFilled back to Pending, or from PartiallyFilled back
\* to Submitted.
C3_StepForward ==
    \A i \in DOMAIN order_objs :
        /\ order_objs[i].status \in {"submitted", "partially_filled"}
               => order_objs'[i].status # "pending"
        /\ order_objs[i].status = "partially_filled"
               => order_objs'[i].status # "submitted"

C3_StatusOnlyAdvances == [][C3_StepForward]_vars

\* C4: Filled, Canceled, Rejected and Expired are terminal: once an order's
\* status is one of them no step changes it.
C4_StepTerminal ==
    \A i \in DOMAIN order_objs :
        order_objs[i].status \in TerminalStatuses
            => order_objs'[i].status = order_objs[i].status

C4_TerminalStatusesStay == [][C4_StepTerminal]_vars

\* C5: cancel_order on an order whose status is Filled, Canceled, Rejected or
\* Expired returns failure, sends no cancel to the broker and leaves the
\* order's status and canceled_at unchanged, in every trading mode.
C5_StepCancelRefused ==
    \A id \in DOMAIN orders :
        (cancel_order(id) /\ order_objs[orders[id]].status \in TerminalStatuses)
            => /\ om_ret'.ok = FALSE
               /\ om_ret'.broker = "none"
               /\ order_objs'[orders[id]].status = order_objs[orders[id]].status
               /\ order_objs'[orders[id]].canceled_at
                      = order_objs[orders[id]].canceled_at

C5_CancelOfTerminalRejected == [][C5_StepCancelRefused]_vars

\* A cancel_order call has just refused a Filled order.
C5_Witness ==
    /\ om_ret.op = "cancel_order"
    /\ om_ret.arg \in DOMAIN orders
    /\ order_objs[orders[om_ret.arg]].status = "filled"
    /\ ~om_ret.ok

-----------------------------------------------------------------------------
(***************************************************************************)
(* Claims about the strategy workers, stated over SpecExec.                *)
(***************************************************************************)
PairSet == {AllPairs[k] : k \in DOMAIN AllPairs}

\* No worker is between the broker's answer and the ledger update for the pair.
C6_Settled(pair) ==
    \A t \in ThreadIds :
        (threads[t].pc \in {"buy_add", "sell_remove"})
            => PairOf(threads[t].strategy_id, SymbolOf(t)) # pair

\* C6: after any sequence of worker buys, signal sells and stop/take-profit
\* exits (no emergency close), the ledger holds a position for a (strategy,
\* symbol) pair exactly when the accepted buys for the pair outnumber the
\* accepted sells by one, and the difference is never greater than one.
C6_LedgerMatchesOrders ==
    ~accepted.forced =>
        \A pair \in PairSet :
            /\ accepted.net[pair] <= 1
            /\ C6_Settled(pair)
                   => (IsHeld(position_manager, pair) <=> accepted.net[pair] = 1)

\* A worker has bought and the pair is settled.
C6_Witness ==
    /\ ~accepted.forced
    /\ \E pair \in PairSet :
           /\ C6_Settled(pair)
           /\ IsHeld(position_manager, pair)
           /\ accepted.net[pair] = 1

\* C7: while the daily halt flag is true all new entries are rejected: a
\* worker sends a buy order, and adds a position to the ledger, only in a
\* state where trading_halted is false; and a worker that has found the halt
\* set evaluates no symbol before it has checked the halt again.
C7_StepNoEntryWhileHalted ==
    \A t \in ThreadIds :
        /\ (threads[t].pc = "buy_place" /\ threads'[t].pc # "buy_place")
               => ~daily_risk_manager.trading_halted
        /\ (threads[t].pc = "buy_add" /\ threads'[t].pc # "buy_add")
               => ~daily_risk_manager.trading_halted
        /\ threads[t].pc = "halt_wait"
               => threads'[t].pc \in {"halt_wait", "top"}

C7_NoEntryWhileHalted == [][C7_StepNoEntryWhileHalted]_vars

\* A worker waits because it has found the halt set.
C7_Witness ==
    \E t \in ThreadIds :
        threads[t].pc = "halt_wait" /\ daily_risk_manager.trading_halted

\* C8: reads and writes of the ledger are serialized across the workers: the
\* portfolio heat of the positions in the ledger never exceeds maxHeat (25%),
\* and no worker adds an admitted position after another worker has changed
\* the ledger its admission was decided on.
C8_LedgerHeatWithinLimit ==
    FracLeq(C2_Risk(existing_positions(position_manager)),
            Frac(25 * PortfolioValue, 100))

C8_NoStaleAdmission ==
    \A t \in ThreadIds : threads[t].pc = "buy_add" => ~threads[t].stale

C8_Serialized ==
    /\ C8_LedgerHeatWithinLimit
    /\ C8_NoStaleAdmission

\* Two workers hold positions at the same time.
C8_Witness ==
    /\ IsHeld(position_manager, AllPairs[1])
    /\ IsHeld(position_manager, AllPairs[2])

\* C9: for one symbol in one iteration of a worker the stop/take-profit
\* evaluation of an existing position comes before the signal evaluation, and
\* no position is both opened and closed for the pair in the same iteration.
C9_StopBeforeSignal ==
    \A t \in ThreadIds :
        (threads[t].held_at_start /\ threads[t].tick_log # <<>>)
            => threads[t].tick_log[1] = "stop_check"

C9_StepNoOpenAndClose ==
    \A t \in ThreadIds :
        (threads[t].pc = "sell_remove" /\ threads'[t].pc # "sell_remove")
            => \A j \in DOMAIN threads[t].tick_log :
                   threads[t].tick_log[j] # "open"

C9_ExitBeforeEntry ==
    /\ [](C9_StopBeforeSignal)
    /\ [][C9_StepNoOpenAndClose]_vars

\* A worker is selling, on a stop-loss, a position that existed when it came
\* to the symbol.
C9_Witness ==
    \E t \in ThreadIds :
        /\ threads[t].pc = "sell_remove"
        /\ threads[t].reason = "stop_loss"
        /\ threads[t].held_at_start

\* C10: emergency stop stops every running worker first and then sells every
\* open position; when it has returned without a broker failure the ledger
\* holds no position, no worker is running, and no position is opened until a
\* strategy is started again.
C10_EmergencyStopHolds ==
    /\ api.op = "em_close" => running_strategies = {}
    /\ em_done => /\ \A pair \in PairSet : ~IsHeld(position_manager, pair)
                  /\ \A t \in ThreadIds : ~Alive(t)

\* An emergency stop that closed a position has returned.
C10_Witness ==
    /\ em_done
    /\ accepted.forced


-----------------------------------------------------------------------------
(***************************************************************************)
(* Claims about core/portfolio_manager.py                                  *)
(***************************************************************************)
\* A close_position call on a symbol that holds a position has been made in
\* this step: the trade list has grown and the call is the last one.
C11_ClosedIn(y) ==
    /\ pf_ret'.op = "close_position"
    /\ pf_ret'.symbol = y
    /\ portfolio_manager.positions[y].present
    /\ Len(portfolio_manager'.trade_history)
           = Len(portfolio_manager.trade_history) + 1

C11_StepClose ==
    \A y \in Symbols :
        LET before == portfolio_manager.positions[y]
            after == portfolio_manager'.positions[y]
            q == pf_ret'.quantity
        IN  C11_ClosedIn(y) =>
                /\ (q = None \/ q = before.quantity) => ~after.present
                /\ (q # None /\ 0 < q /\ q < before.quantity)
                       => (after.present /\ after.quantity = before.quantity - q)
                /\ after.quantity >= 0

C11_StoredPositive ==
    \A y \in Symbols :
        portfolio_manager.positions[y].present
            => portfolio_manager.positions[y].quantity > 0

\* C11: close_position with quantity q on an open position of quantity n
\* removes the position when q = n or q is omitted, leaves it with n - q when
\* 0 < q < n, never takes a quantity below zero, and no stored position has a
\* quantity <= 0 (add_position being called with positive quantities).
C11_CloseReducesOrRemoves ==
    [][C11_StepClose]_vars /\ [](C11_StoredPositive)

\* A partial close has left a position of two shares or more with fewer.
C11_Witness ==
    /\ pf_ret.op = "close_position"
    /\ pf_ret.ok
    /\ pf_ret.quantity \in 1 .. 5
    /\ portfolio_manager.positions[pf_ret.symbol].present
    /\ portfolio_manager.trade_history # <<>>
    /\ LET last == portfolio_manager.trade_history[Len(portfolio_manager.trade_history)]
       IN  last.action = "SELL" /\ last.symbol = pf_ret.symbol
               /\ last.quantity = pf_ret.quantity

C12_StepOverClose ==
    \A y \in Symbols :
        LET before == portfolio_manager.positions[y]
            q == pf_ret'.quantity
        IN  (/\ pf_ret'.op = "close_position"
             /\ pf_ret'.symbol = y
             /\ \/ ~before.present
                \/ (q # None /\ q > before.quantity))
                => (~pf_ret'.ok /\ portfolio_manager' = portfolio_manager)

\* C12: a close_position call whose quantity is larger than the open quantity
\* of the symbol, or for a symbol whose position is already fully closed,
\* returns None and leaves cash, positions and the trade list as they were.
C12_OverCloseFails == [][C12_StepOverClose]_vars

\* A second close of a position that was fully closed has returned None.
C12_Witness ==
    /\ pf_ret.op = "close_position"
    /\ ~pf_ret.ok
    /\ portfolio_manager.trade_history # <<>>
    /\ LET last == portfolio_manager.trade_history[Len(portfolio_manager.trade_history)]
       IN  last.action = "SELL" /\ last.symbol = pf_ret.symbol
    /\ ~portfolio_manager.positions[pf_ret.symbol].present


-----------------------------------------------------------------------------
(***************************************************************************)
(* Claims about the correlated-exposure limit                              *)
(***************************************************************************)
\* The open positions and the candidate of a can_open_new_position call.
C13_AllPositions ==
    Append(adm_in.existing_positions,
           PositionDict(adm_in.symbol,
                        Frac(adm_in.position_value, adm_in.entry_price),
                        adm_in.entry_price, adm_in.entry_price,
                        adm_in.stop_loss_price))

\* The correlations of the market for every pair of symbols.
C13_Market ==
    [pr \in ClusterSymbolSet \X ClusterSymbolSet |->
        IF pr[1] = pr[2] THEN 100 ELSE adm_in.pairs[{pr[1], pr[2]}]]

\* The single-pass clusters of the symbols of the call under the correlations
\* of the market.
C13_Clusters ==
    find_correlated_clusters(
        [j \in DOMAIN C13_AllPositions |-> C13_AllPositions[j].symbol],
        C13_Market)

\* The cluster of the candidate's symbol holds more than 15% of the portfolio.
C13_CandidateClusterOver ==
    \E k \in DOMAIN C13_Clusters :
        /\ \E j \in DOMAIN C13_Clusters[k] : C13_Clusters[k][j] = adm_in.symbol
        /\ LET v == cluster_value(C13_AllPositions, C13_Clusters[k])
           IN  v.n * 100 > MaxCorrelatedExposurePct * adm_in.portfolio_value * v.d

\* C13: when the candidate's symbol belongs to a correlation cluster whose
\* summed notional (open positions plus candidate) is more than 15% of the
\* portfolio value, can_open_new_position rejects the candidate, also when
\* the portfolio heat is within its limit.
C13_ClusterLimitRejects ==
    (adm_out.fn = "can_open_cluster" /\ C13_CandidateClusterOver)
        => ~adm_out.approved

\* Three open positions correlated 0.7 pairwise and with the candidate,
\* worth 20% of the portfolio; the fourth entry is refused for its cluster.
C13_Witness ==
    /\ adm_out.fn = "can_open_cluster"
    /\ Len(adm_in.existing_positions) = 3
    /\ adm_in.symbol = "DIA"
    /\ \A pr \in DOMAIN adm_in.pairs : adm_in.pairs[pr] = 70
    /\ cluster_value(adm_in.existing_positions, ClusterSymbols).n = 800
    /\ ~adm_out.approved
    /\ adm_out.reason = "Correlated exposure would exceed limit"


-----------------------------------------------------------------------------
(***************************************************************************)
(* Claims about create_order and the filled quantity                       *)
(***************************************************************************)
\* C15: every order stored in the manager has a limit price when its kind is
\* limit or stop_limit and a stop price when its kind is stop, stop_limit or
\* trailing_stop: create_order stores nothing and returns None otherwise.
C15_StoredOrdersHavePrices ==
    \A k \in DOMAIN order_objs :
        /\ order_objs[k].order_type \in {"limit", "stop_limit"}
               => order_objs[k].limit_price # None
        /\ order_objs[k].order_type \in {"stop", "stop_limit", "trailing_stop"}
               => order_objs[k].stop_price # None

\* create_order has refused an order and stored nothing.
C15_Witness ==
    /\ om_ret.op = "create_order"
    /\ ~om_ret.ok
    /\ order_objs = <<>>


C14_InPass(t) ==
    threads[t].pc \notin {"unborn", "done", "top", "halt_wait"}

\* The pass of thread t ends in this step with a symbol left and no stop
\* request.
C14_PassGivenUp(t) ==
    /\ C14_InPass(t)
    /\ threads'[t].pc = "top"
    /\ ~threads[t].stop_flag
    /\ threads[t].idx <= Len(strategy_symbols(threads[t].strategy_id))

C14_StepSymbolGranularity ==
    \A t \in ThreadIds :
        /\ ~C14_PassGivenUp(t)
        /\ (Alive(t) /\ threads'[t].pc = "done") => threads[t].stop_flag

C16_StopHit ==
    adm_in.stop_loss # None /\ adm_in.current_price <= adm_in.stop_loss

C16_TargetHit ==
    adm_in.take_profit # None /\ adm_in.current_price >= adm_in.take_profit

\* The stop triggers exactly at observed price <= stop and, the stop not
\* being hit, the target exactly at observed price >= target.
C16_Triggers ==
    adm_out.fn = "check_exit" =>
        /\ (adm_out.reason = "stop_loss") <=> C16_StopHit
        /\ (adm_out.reason = "take_profit") <=> (~C16_StopHit /\ C16_TargetHit)

\* C16: the stop triggers when the observed price is at or below the stop
\* and the target when it is at or above the target; a position closed on
\* its stop is closed with the stop-loss reason and the exit price recorded
\* for the trade is the stop price, not the lower observed price.
C16_StopExitAtStopPrice ==
    /\ C16_Triggers
    /\ (adm_out.fn = "check_exit" /\ adm_out.closed /\ C16_StopHit) =>
           /\ adm_out.reason = "stop_loss"
           /\ adm_out.price = adm_in.stop_loss

\* Entry at 100, stop at 95, observed 94: the position has been closed on
\* its stop.
C16_Witness ==
    /\ adm_out.fn = "check_exit"
    /\ adm_in.entry_price = 100
    /\ adm_in.stop_loss = 95
    /\ adm_in.current_price = 94
    /\ adm_out.closed
    /\ adm_out.reason = "stop_loss"


(***************************************************************************)
(* Claim about the backtest, stated over SpecBacktest.                     *)
(***************************************************************************)
\* Two runs with the same completion order, each on an engine whose
\* predictor has not been trained, return the same trades and equity curve.
C17_SameOrderNewEngine ==
    (/\ Len(backtest_runs) = 2
     /\ backtest_runs[1].order = backtest_runs[2].order
     /\ backtest_runs[1].engine_before = backtest_runs[2].engine_before)
        => /\ backtest_runs[1].trades = backtest_runs[2].trades
           /\ backtest_runs[1].equity_curve = backtest_runs[2].equity_curve

\* C17: two runs of the backtest with the same symbols, bars, strategy,
\* capital and commission return an identical trade list and an identical
\* equity curve, whatever the order in which the fetches complete and
\* whether or not the engine of the first run is used again.
C17_BacktestIdempotent ==
    Len(backtest_runs) = 2
        => /\ backtest_runs[1].trades = backtest_runs[2].trades
           /\ backtest_runs[1].equity_curve = backtest_runs[2].equity_curve

\* Two runs have been made and the first has closed at least one trade.
C17_Witness ==
    /\ Len(backtest_runs) = 2
    /\ backtest_runs[1].trades # <<>>
    /\ backtest_runs[2].trades # <<>>


(***************************************************************************)
(* Claims about the position sizes, stated over SpecAdmit.                 *)
(***************************************************************************)
\* The Kelly call has returned for a win rate in [0.4, 1.0], a reward:risk
\* ratio above 0 and a portfolio value above 0.
C18_KellyReturned ==
    /\ adm_out.fn = "kelly_position_size"
    /\ adm_in.win_rate >= 40
    /\ adm_in.win_rate <= 100
    /\ adm_in.reward_risk_ratio > 0
    /\ adm_in.portfolio_value > 0

\* C18: for a win rate in [0.4, 1.0], a reward:risk ratio above 0 and a
\* portfolio value above 0, the Kelly position size is the portfolio value
\* times a fraction between 0 and max_position = 0.25.
C18_KellyFractionBounded ==
    C18_KellyReturned =>
        /\ adm_out.size.d > 0
        /\ adm_out.size.n >= 0
        /\ 4 * adm_out.size.n <= adm_in.portfolio_value * adm_out.size.d

\* The half-Kelly fraction is above a quarter (win rate 75%, ratio 2.0:
\* 0.3125) and the size returned is the capped one.
C18_Witness ==
    /\ C18_KellyReturned
    /\ adm_in.win_rate = 75
    /\ adm_in.reward_risk_ratio = 20
    /\ adm_in.portfolio_value = 1000
    /\ adm_out.size = Frac(1000, 4)

\* C19: the volatility-adjusted number of shares is
\* floor(portfolio value x 1% / (ATR x 2)), at least 1, capped so that
\* shares x price is at most 25% of the portfolio value, for every portfolio
\* value above 0, price above 0 and ATR of 0 or more.
C19_SharesWithinCap ==
    adm_out.fn = "calculate_shares" =>
        /\ adm_out.size * adm_in.price * 100 <= 25 * adm_in.portfolio_value
        /\ adm_in.atr > 0 =>
               LET floor_shares == adm_in.portfolio_value \div (200 * adm_in.atr)
                   max_shares == (adm_in.portfolio_value * 25)
                                     \div (100 * adm_in.price)
               IN  adm_out.size = Min(Max(1, floor_shares), max_shares)

\* The sizing has returned for an ATR of 0 and a share that costs more than a
\* quarter of the portfolio.
C19_Witness ==
    /\ adm_out.fn = "calculate_shares"
    /\ adm_in.atr = 0
    /\ adm_in.price * 4 > adm_in.portfolio_value


(***************************************************************************)
(* Claims about the daily halt, stated over SpecRisk.                      *)
(***************************************************************************)
\* An update_portfolio_value call made on the manager's day that finds the
\* limit breached.
C21_BreachCall ==
    /\ clock' = clock
    /\ daily_risk_manager.today = clock
    /\ risk_ret'.op = "update_portfolio_value"
    /\ ~risk_ret'.ok

\* A can_trade call made on the manager's day.
C21_CanTradeCall ==
    /\ clock' = clock
    /\ daily_risk_manager.today = clock
    /\ risk_ret'.op = "can_trade"

C21_StepHaltOnce ==
    /\ C21_BreachCall =>
           /\ daily_risk_manager'.trading_halted
           /\ IF daily_risk_manager.trading_halted
              THEN /\ daily_risk_manager'.halt_reason
                          = daily_risk_manager.halt_reason
                   /\ ~risk_ret'.logged
              ELSE /\ daily_risk_manager'.halt_reason.kind
                          = "Daily loss limit reached"
                   /\ risk_ret'.logged
    /\ C21_CanTradeCall =>
           /\ daily_risk_manager'.trading_halted
                  = daily_risk_manager.trading_halted
           /\ daily_risk_manager'.halt_reason = daily_risk_manager.halt_reason

\* C21: within one trading day, of consecutive update_portfolio_value and
\* can_trade calls that find the daily-loss limit breached only the first
\* makes the halt transition: it sets the flag and the reason and logs the
\* breach; every later call leaves the flag and the reason as they are and
\* logs nothing.
C21_HaltTransitionOnce == [][C21_StepHaltOnce]_vars

\* A second breach call of the day has returned: the loss is another one
\* than the reason names, and the call did not log.
C21_Witness ==
    /\ risk_ret.op = "update_portfolio_value"
    /\ ~risk_ret.ok
    /\ ~risk_ret.logged
    /\ daily_risk_manager.trading_halted
    /\ daily_risk_manager.halt_reason.kind = "Daily loss limit reached"
    /\ daily_risk_manager.halt_reason.pct
           # PctHundredths(daily_risk_manager.daily_pnl,
                           daily_risk_manager.starting_portfolio_value)


\* C30: in every state, a manual halt before the first portfolio-value
\* update of the day included, get_daily_stats reports the trading_halted
\* flag and the halt reason that can_trade uses to block entries.
C30_StatsReportHalt ==
    risk_ret.op = "get_daily_stats" =>
        /\ risk_ret.ok = daily_risk_manager.trading_halted
        /\ risk_ret.reason = daily_risk_manager.halt_reason

\* get_daily_stats has returned on a manager that was halted by hand before
\* any portfolio value of the day was reported.
C30_Witness ==
    /\ risk_ret.op = "get_daily_stats"
    /\ daily_risk_manager.trading_halted
    /\ daily_risk_manager.halt_reason.kind = "Manual halt by user"
    /\ daily_risk_manager.starting_portfolio_value = None

-----------------------------------------------------------------------------
(***************************************************************************)
(* C22: stop is cooperative and bounded.  A worker whose stop flag is set  *)
(* reads the flag at the top of the loop, at the head of the symbol loop   *)
(* and after a sleep, starts work on no further symbol and, its calls      *)
(* returning, ends; stop_strategy comes back from its join.                *)
(***************************************************************************)
C22_StepNoFurtherSymbol ==
    \A t \in ThreadIds :
        threads[t].stop_flag =>
            /\ threads[t].pc = "top" => threads'[t].pc \in {"top", "done"}
            /\ threads[t].pc = "halt_wait" => threads'[t].pc \in {"halt_wait", "top"}
            /\ threads[t].pc = "sym" => threads'[t].pc \in {"sym", "top"}
            /\ threads'[t].stop_flag

C22_WorkerExits ==
    \A t \in ThreadIds : threads[t].stop_flag ~> threads[t].pc = "done"

C22_StopReturns == (api.op = "stop_join") ~> (api.op = "idle")

C22_CooperativeBoundedStop ==
    /\ [][C22_StepNoFurtherSymbol]_vars
    /\ C22_WorkerExits
    /\ C22_StopReturns

\* A worker stopped between two symbols has ended and stop_strategy has
\* returned.
C22_Witness ==
    \E t \in ThreadIds :
        /\ threads[t].stop_flag
        /\ threads[t].pc = "done"
        /\ threads[t].strategy_id \notin running_strategies
        /\ api.op = "idle"

-----------------------------------------------------------------------------
(***************************************************************************)
(* C23: whatever the sequence of start_strategy and stop_strategy calls,   *)
(* at most one worker loop is executing for a strategy id, and every       *)
(* executing worker that has not been told to stop is the thread the       *)
(* executor's tables hold for its strategy.                                *)
(***************************************************************************)
C23_Reachable(t) ==
    /\ threads[t].strategy_id \in running_strategies
    /\ execution_threads[threads[t].strategy_id] = t

C23_OneWorkerPerStrategy ==
    /\ \A t, u \in ThreadIds :
           (Alive(t) /\ Alive(u)
               /\ threads[t].strategy_id = threads[u].strategy_id) => t = u
    /\ \A t \in ThreadIds :
           (Alive(t) /\ ~threads[t].stop_flag) => C23_Reachable(t)

\* A restarted strategy: its new worker is in the tables while the worker of
\* the stop that gave up its join is still with the broker.
C23_Witness ==
    \E t, u \in ThreadIds :
        /\ t # u
        /\ threads[t].strategy_id = threads[u].strategy_id
        /\ threads[t].stop_flag
        /\ threads[t].pc \in {"buy_place", "sell_place"}
        /\ Alive(u)
        /\ ~threads[u].stop_flag
        /\ C23_Reachable(u)

-----------------------------------------------------------------------------
(***************************************************************************)
(* C24: the worker changes the position ledger only after the broker has   *)
(* accepted the corresponding order.  A buy whose order failed adds no     *)
(* position and logs no buy; a sell whose order failed leaves the position *)
(* as it is; a position enters the ledger only from a worker whose buy was *)
(* accepted and leaves it only after an accepted sell.                     *)
(***************************************************************************)
C24_PairOf(th) ==
    PairOf(th.strategy_id, strategy_symbols(th.strategy_id)[th.idx])

C24_StepWorker(t) ==
    LET th == threads[t]
        th2 == threads'[t]
    IN  /\ (th.pc = "buy_place" /\ th2.pc # "buy_place") =>
               /\ position_manager' = position_manager
               /\ IF th2.pc = "buy_add"
                  THEN accepted'.net[C24_PairOf(th)]
                           = accepted.net[C24_PairOf(th)] + 1
                  ELSE /\ accepted' = accepted
                       /\ th2.pc = "stopcheck"
                       /\ th2.tick_log = <<"signal">>
        /\ (th.pc = "sell_place" /\ th2.pc # "sell_place") =>
               /\ position_manager' = position_manager
               /\ IF th2.pc = "sell_remove"
                  THEN accepted'.net[C24_PairOf(th)]
                           = accepted.net[C24_PairOf(th)] - 1
                  ELSE accepted' = accepted
        /\ (th2.pc = "buy_add" /\ th.pc # "buy_add") => th.pc = "buy_place"
        /\ (th2.pc = "sell_remove" /\ th.pc # "sell_remove") =>
               th.pc = "sell_place"

C24_StepLedger ==
    \A k \in DOMAIN AllPairs :
        LET pair == AllPairs[k]
            before == position_manager[pair.strategy_id][pair.symbol]
            after == position_manager'[pair.strategy_id][pair.symbol]
        IN  /\ (after # before /\ after # NoPosition) =>
                   \E t \in ThreadIds :
                       /\ threads[t].pc = "buy_add"
                       /\ threads'[t].pc # "buy_add"
                       /\ C24_PairOf(threads[t]) = pair
            /\ (after # before /\ after = NoPosition) =>
                   \/ \E t \in ThreadIds :
                          /\ threads[t].pc = "sell_remove"
                          /\ threads'[t].pc # "sell_remove"
                          /\ C24_PairOf(threads[t]) = pair
                   \/ /\ api.op = "em_close"
                      /\ accepted'.net[pair] = accepted.net[pair] - 1

C24_LedgerAfterAcceptance ==
    [][(\A t \in ThreadIds : C24_StepWorker(t)) /\ C24_StepLedger]_vars

\* A worker has added the position of an accepted buy and logged it, while
\* the broker has refused every other order.
C24_Witness ==
    \E t \in ThreadIds :
        /\ threads[t].pc = "stopcheck"
        /\ threads[t].tick_log = <<"signal", "open">>
        /\ IsHeld(position_manager, C24_PairOf(threads[t]))
        /\ accepted.net[C24_PairOf(threads[t])] = 1
        /\ accepted.total = 1

-----------------------------------------------------------------------------
(***************************************************************************)
(* C25: a broker error while the emergency stop closes one position does   *)
(* not end the close pass.  A sell is attempted for every position that    *)
(* was open when the pass started; a position whose sell succeeded leaves  *)
(* the ledger, a position whose sell failed stays in it.                   *)
(***************************************************************************)
C25_StepSnapshot ==
    (api.op = "em_stop" /\ api'.op = "em_close") =>
        /\ {PairOf(api'.todo[j].strategy_id, api'.todo[j].symbol) :
                j \in DOMAIN api'.todo}
               = {AllPairs[k] : k \in {n \in DOMAIN AllPairs :
                                          IsHeld(position_manager, AllPairs[n])}}
        /\ \A j, k \in DOMAIN api'.todo :
               api'.todo[j] = api'.todo[k] => j = k

C25_StepClose ==
    (api.op = "em_close" /\ api.todo # <<>>) =>
        LET pair == PairOf(Head(api.todo).strategy_id, Head(api.todo).symbol)
        IN  /\ api'.op = "em_close"
            /\ api'.todo = Tail(api.todo)
            /\ \A k \in DOMAIN AllPairs :
                   AllPairs[k] # pair =>
                       /\ IsHeld(position_manager', AllPairs[k])
                              = IsHeld(position_manager, AllPairs[k])
                       /\ accepted'.net[AllPairs[k]] = accepted.net[AllPairs[k]]
            /\ \/ /\ accepted'.net[pair] = accepted.net[pair] - 1
                  /\ ~IsHeld(position_manager', pair)
               \/ /\ accepted' = accepted
                  /\ position_manager' = position_manager

C25_SoldIffRemoved ==
    \A k \in DOMAIN AllPairs :
        IsHeld(position_manager, AllPairs[k]) <=> accepted.net[AllPairs[k]] = 1

C25_ClosePassGoesOn ==
    /\ [][C25_StepSnapshot /\ C25_StepClose]_vars
    /\ []C25_SoldIffRemoved

\* The pass over three open positions is over: the broker refused the first
\* and the third sell and took the second.
C25_Witness ==
    /\ api.op = "em_close"
    /\ api.todo = <<>>
    /\ api.failed
    /\ accepted.total = 1
    /\ accepted.forced
    /\ IsHeld(position_manager, AllPairs[1])
    /\ ~IsHeld(position_manager, AllPairs[2])
    /\ IsHeld(position_manager, AllPairs[3])

-----------------------------------------------------------------------------
(***************************************************************************)
(* C26: in the backtest loop the stop-loss and take-profit check of a bar  *)
(* meets only a position opened on an earlier bar.  No trade has its entry *)
(* and its exit on one bar, and every stop-loss or take-profit exit is on  *)
(* a bar after the entry.                                                  *)
(***************************************************************************)
C26_NoSameBarTrade ==
    \A k \in DOMAIN backtest_runs :
        \A j \in DOMAIN backtest_runs[k].trades :
            backtest_runs[k].trades[j].exit_date
                > backtest_runs[k].trades[j].entry_date

C26_StopTargetOnLaterBar ==
    \A k \in DOMAIN backtest_runs :
        \A j \in DOMAIN backtest_runs[k].trades :
            backtest_runs[k].trades[j].exit_reason \in {"stop_loss", "take_profit"}
                => backtest_runs[k].trades[j].exit_date
                       > backtest_runs[k].trades[j].entry_date

C26_PriorBarOnly == C26_NoSameBarTrade /\ C26_StopTargetOnLaterBar

\* A position bought on a bar whose ATR is 0 has its stop at the entry price
\* and is stopped out by the check of the same bar.
C26_Witness ==
    \E k \in DOMAIN backtest_runs :
        \E j \in DOMAIN backtest_runs[k].trades :
            LET trade == backtest_runs[k].trades[j]
            IN  /\ trade.exit_reason = "stop_loss"
                /\ trade.exit_date = trade.entry_date
                /\ trade.exit_price = trade.entry_price

-----------------------------------------------------------------------------
(***************************************************************************)
(* C27: at the end of the backtest of a symbol no position is open.  Every *)
(* entry has exactly one trade record, the trades of a symbol follow one   *)
(* another without overlap, a position left after the last bar is closed   *)
(* at the last bar's price with the end-of-run reason, and the cash        *)
(* balance is never negative.                                              *)
(***************************************************************************)
C27_TradesOf(run, symbol) ==
    SelectSeq(run.trades, LAMBDA trade : trade.symbol = symbol)

C27_EndState(run, e) ==
    LET trades == C27_TradesOf(run, e.symbol)
        last == Len(BtCloses[e.symbol])
    IN  /\ e.position = BtFlat
        /\ e.entries = Len(trades)
        /\ \A j \in 1..(Len(trades) - 1) :
               trades[j + 1].entry_date >= trades[j].exit_date
        /\ \A j \in DOMAIN trades :
               trades[j].exit_reason = "end_of_backtest" =>
                   /\ j = Len(trades)
                   /\ trades[j].exit_date = last
                   /\ trades[j].exit_price = BtCloses[e.symbol][last]

C27_Settled ==
    \A k \in DOMAIN backtest_runs :
        \A j \in DOMAIN backtest_runs[k].ends :
            C27_EndState(backtest_runs[k], backtest_runs[k].ends[j])

C27_CashNeverNegative ==
    \A k \in DOMAIN backtest_runs :
        \A j \in DOMAIN backtest_runs[k].ends :
            backtest_runs[k].ends[j].cash_low >= 0

C27_EndOfBacktest == C27_Settled /\ C27_CashNeverNegative

\* A symbol whose one position was sold for less than the commission: the
\* backtest ends flat with one trade and less than no cash.
C27_Witness ==
    \E k \in DOMAIN backtest_runs :
        \E j \in DOMAIN backtest_runs[k].ends :
            LET e == backtest_runs[k].ends[j]
            IN  /\ e.position = BtFlat
                /\ e.entries = 1
                /\ Len(C27_TradesOf(backtest_runs[k], e.symbol)) = 1
                /\ e.capital < 0

-----------------------------------------------------------------------------
(***************************************************************************)
(* C28: find_correlated_clusters returns the partition of its symbols that *)
(* one greedy pass makes.  Every symbol is in exactly one cluster; the     *)
(* seed of a cluster is the earliest symbol of the input not yet in a      *)
(* cluster; a symbol that is no seed is in the cluster of the first seed   *)
(* it is correlated with.  As claimed, the test is on the absolute         *)
(* correlation; as amended, on the correlation itself.                     *)
(***************************************************************************)
C28_Matrix ==
    calculate_correlation_matrix(
        {adm_in.symbols[j] : j \in DOMAIN adm_in.symbols}, adm_in.pairs,
        adm_in.cache)

C28_Correlated(a, b) ==
    /\ C28_Matrix[<<a, b>>] # None
    /\ C28_Matrix[<<a, b>>] >= CorrelationThresholdPct

C28_CorrelatedAbs(a, b) ==
    /\ C28_Matrix[<<a, b>>] # None
    /\ Abs(C28_Matrix[<<a, b>>]) >= CorrelationThresholdPct

C28_FirstIndex(symbol) ==
    CHOOSE k \in DOMAIN adm_in.symbols :
        /\ adm_in.symbols[k] = symbol
        /\ \A j \in 1..(k - 1) : adm_in.symbols[j] # symbol

\* The clusters are a partition of the input and every seed is the earliest
\* symbol the clusters before it have left.
C28_Partition(clusters) ==
    /\ \A symbol \in {adm_in.symbols[j] : j \in DOMAIN adm_in.symbols} :
           Cardinality({pos \in (DOMAIN clusters) \X (1..Len(adm_in.symbols)) :
                           /\ pos[2] <= Len(clusters[pos[1]])
                           /\ clusters[pos[1]][pos[2]] = symbol}) = 1
    /\ \A q \in DOMAIN clusters :
           /\ clusters[q] # <<>>
           /\ \A j \in DOMAIN clusters[q] :
                  \E k \in DOMAIN adm_in.symbols :
                      adm_in.symbols[k] = clusters[q][j]
           /\ \A k \in 1..(C28_FirstIndex(clusters[q][1]) - 1) :
                  \E p \in 1..(q - 1) : \E j \in DOMAIN clusters[p] :
                      clusters[p][j] = adm_in.symbols[k]

C28_GreedyAbs ==
    adm_out.fn = "find_correlated_clusters" =>
        LET clusters == adm_out.reason
        IN  /\ C28_Partition(clusters)
            /\ \A q \in DOMAIN clusters :
                   /\ \A j \in 2..Len(clusters[q]) :
                          /\ C28_CorrelatedAbs(clusters[q][1], clusters[q][j])
                          /\ \A p \in 1..(q - 1) :
                                 ~C28_CorrelatedAbs(clusters[p][1],
                                                    clusters[q][j])
                   /\ \A p \in 1..(q - 1) :
                          ~C28_CorrelatedAbs(clusters[p][1], clusters[q][1])

C28_GreedySigned ==
    adm_out.fn = "find_correlated_clusters" =>
        LET clusters == adm_out.reason
        IN  /\ C28_Partition(clusters)
            /\ \A q \in DOMAIN clusters :
                   /\ \A j \in 2..Len(clusters[q]) :
                          /\ C28_Correlated(clusters[q][1], clusters[q][j])
                          /\ \A p \in 1..(q - 1) :
                                 ~C28_Correlated(clusters[p][1], clusters[q][j])
                   /\ \A p \in 1..(q - 1) :
                          ~C28_Correlated(clusters[p][1], clusters[q][1])

\* The first seed has taken in the symbol it is correlated with, and the
\* symbol that moves against it is the seed of a second cluster.
C28_Witness ==
    /\ adm_out.fn = "find_correlated_clusters"
    /\ Len(adm_out.reason) = 2
    /\ Len(adm_out.reason[1]) = 2
    /\ C28_Matrix[<<adm_out.reason[1][1], adm_out.reason[2][1]>>] = -80

-----------------------------------------------------------------------------
(***************************************************************************)
(* C29: a buy whose notional (quantity x price) is more than the cash at   *)
(* hand is rejected before an order reaches the broker, and the rejection  *)
(* leaves cash, positions and trade history as they were; after any        *)
(* sequence of buys and closes the cash is not negative.                   *)
(***************************************************************************)
C29_StepRejected ==
    (pf_ret'.op \in {"add_position", "execute_signal"}
        /\ pf_ret'.quantity * pf_ret'.price > portfolio_manager.cash) =>
            /\ portfolio_manager' = portfolio_manager
            /\ ~pf_ret'.ok
            /\ pf_ret'.op = "execute_signal" => ~pf_ret'.submitted

C29_CashNotNegative == portfolio_manager.cash >= 0

C29_RejectedBeforeBroker ==
    /\ [][C29_StepRejected]_vars
    /\ []C29_CashNotNegative

\* execute_signal has answered True for a buy that the broker has and the
\* portfolio has not: the cash does not cover it.
C29_Witness ==
    /\ pf_ret.op = "execute_signal"
    /\ pf_ret.submitted
    /\ pf_ret.ok
    /\ pf_ret.quantity * pf_ret.price > portfolio_manager.cash
    /\ portfolio_manager.cash < 10
    /\ ~portfolio_manager.positions[pf_ret.symbol].present

=============================================================================
